---- MODULE Spec2Model ----
(***************************************************************************)
(* A model of the LambdaMOO database writer (lambdamoo_db/writer.py) and   *)
(* of the entity model it walks (lambdamoo_db/database.py, enums.py).      *)
(*                                                                         *)
(* A Writer session is a state machine: its state is the database, the     *)
(* text written so far (completed lines plus the unfinished line) and the  *)
(* waif interning table _written_waifs.  One action is one call of a       *)
(* public method of the Writer; an exception a call raises ends that call  *)
(* and leaves the session as the call left it.                             *)
(***************************************************************************)
EXTENDS Integers, Sequences, FiniteSets, TLC

VARIABLES
    db,             \* Writer.db: the MooDatabase being written
    lines,          \* output_file: the completed lines written so far
    cur,            \* output_file: the text written after the last line ending
    written_waifs,  \* Writer._written_waifs: original index -> write index
    raised,         \* the exception raised by the last call, or "none"
    enc,            \* history: every entry into writeWaif, <<index, position>>
    calls,          \* history: the calls made, each with where its output starts
    cmp,            \* the last comparison called: its arguments and its outcome
    dumps           \* the dump(db, f) calls under way: the Writer of each

vars == <<db, lines, cur, written_waifs, raised, enc, calls, cmp, dumps>>

\* ------------------------------------------------------------------ bounds

\* The number of writeValue calls made in one Writer session.
MaxCalls == 3

\* The number of calls of the section writers made in one Writer session.
MaxDbCalls == 1

\* The largest total_objects of a database.
MaxObjects == 2

\* ------------------------------------------------------------ enums.MooTypes

INT == 0
OBJ == 1
STR == 2
ERR == 3
LIST == 4
CLEAR == 5
NONE == 6
CATCH == 7
FINALLY == 8
FLOAT == 9
MAP == 10
ANON == 12
WAIF == 13
BOOL == 14

\* ------------------------------------------------------------- value model
\* A value is a record whose field k is its Python class and whose field v
\* is its payload: an integer for the int subclasses, a string for str, a
\* TRUE/FALSE for bool, a sequence of values for list, a sequence of
\* <<key, value>> pairs in insertion order for dict, the waif index for
\* WaifReference, <<m, e>> (the number m / 2^e) for float.

PyInt(n) == [k |-> "int", v |-> n]
ObjNum(n) == [k |-> "ObjNum", v |-> n]
Anon(n) == [k |-> "Anon", v |-> n]
MooError(n) == [k |-> "MooError", v |-> n]
MooCatch(n) == [k |-> "MooCatch", v |-> n]
MooFinally(n) == [k |-> "MooFinally", v |-> n]
PyBool(b) == [k |-> "bool", v |-> b]
PyStr(s) == [k |-> "str", v |-> s]
PyFloat(m, e) == [k |-> "float", v |-> <<m, e>>]
\* A float whose mantissa is beyond the integers at hand: the number D / 2^e,
\* D >= 0 given by its decimal digits, the ones first.
PyFloatBig(D, e) == [k |-> "float", v |-> <<D, e, "+">>]
\* float('nan')
PyNaN == [k |-> "float", v |-> << >>]
PyList(s) == [k |-> "list", v |-> s]
PyDict(s) == [k |-> "dict", v |-> s]
WaifReference(i) == [k |-> "WaifReference", v |-> i]
CLEARV == [k |-> "Clear", v |-> 0]
PyNone == [k |-> "NoneType", v |-> 0]
\* An int-convertible object that is no int (it has __int__ only).
PySupportsInt(n) == [k |-> "SupportsInt", v |-> n]
\* An object of a class outside the value model.
PyOther == [k |-> "object", v |-> 0]

\* The classes that are int or a subclass of int other than bool.
IntClasses == {"int", "ObjNum", "Anon", "MooError", "MooCatch", "MooFinally"}

\* Waif(waif_class, owner, props, propdefs_length); props is the list as
\* stored: each element is any value, a (slot, value) tuple being Tup(s, x).
Waif(c, o, p, n) == [waif_class |-> c, owner |-> o, props |-> p, propdefs_length |-> n]
Tup(s, x) == [k |-> "tuple", v |-> <<PyInt(s), x>>]

\* ---------------------------------------------------------- writer state
\* The operators below are the Writer's methods as functions of the
\* writer state st = [lines, cur, written_waifs, exc, enc]; a method that
\* is entered with an exception pending does nothing (the exception is
\* propagating).

Ok(st) == st.exc = "none"

Raise(st, e) == IF Ok(st) THEN [st EXCEPT !.exc = e] ELSE st

\* Writer.write
write(st, text) == IF Ok(st) THEN [st EXCEPT !.cur = @ \o text] ELSE st

\* self.write(self._nl): the line ending completes the current line
writeNl(st) ==
    IF Ok(st) THEN [st EXCEPT !.lines = Append(@, st.cur), !.cur = ""] ELSE st

\* Writer.writeString
writeString(st, s) ==
    IF st.exc # "none" THEN st ELSE
    writeNl(write(st, s))

\* --------------------------------------------------------------- floats
\* The arithmetic of floats is exact arithmetic on natural numbers written in
\* base 10000: a sequence of limbs below 10000, the lowest first and the
\* highest not 0 (zero is the empty sequence).

RECURSIVE BigOfInt(_)
BigOfInt(n) == IF n = 0 THEN << >> ELSE <<n % 10000>> \o BigOfInt(n \div 10000)

RECURSIVE BigToInt(_)
BigToInt(L) == IF L = << >> THEN 0 ELSE L[1] + 10000 * BigToInt(Tail(L))

\* The number with the decimal digits D, the ones first
BigOfDigits(D) ==
    LET dg(i) == IF i <= Len(D) THEN D[i] ELSE 0
    IN  [j \in 1..((Len(D) + 3) \div 4) |->
            dg(4 * j - 3) + 10 * dg(4 * j - 2) + 100 * dg(4 * j - 1) + 1000 * dg(4 * j)]

\* The decimal digits of L, the ones first and the highest not 0
DigitsOf(L) ==
    IF L = << >> THEN << >>
    ELSE LET top == L[Len(L)]
             n == 4 * (Len(L) - 1)
                    + (IF top >= 1000 THEN 4 ELSE IF top >= 100 THEN 3
                       ELSE IF top >= 10 THEN 2 ELSE 1)
         IN  [i \in 1..n |-> (L[((i - 1) \div 4) + 1] \div (10 ^ ((i - 1) % 4))) % 10]

\* L * k + c, for 0 < k <= 100000
RECURSIVE BigTimes(_, _, _)
BigTimes(L, k, c) ==
    IF L = << >> THEN BigOfInt(c)
    ELSE <<(L[1] * k + c) % 10000>> \o BigTimes(Tail(L), k, (L[1] * k + c) \div 10000)

\* L * k^e for k = 2, 5 or 10, some factors at a time
RECURSIVE BigTimesPow(_, _, _)
BigTimesPow(L, k, e) ==
    LET step == IF k = 2 THEN 16 ELSE IF k = 5 THEN 7 ELSE 4
    IN  IF e = 0 \/ L = << >> THEN L
        ELSE IF e <= step THEN BigTimes(L, k ^ e, 0)
        ELSE BigTimesPow(BigTimes(L, k ^ step, 0), k, e - step)

\* L without high zeros
RECURSIVE Canon(_)
Canon(L) ==
    IF L # << >> /\ L[Len(L)] = 0 THEN Canon(SubSeq(L, 1, Len(L) - 1)) ELSE L

\* A + B + c
RECURSIVE BigPlus(_, _, _)
BigPlus(A, B, c) ==
    IF A = << >> THEN BigTimes(B, 1, c)
    ELSE IF B = << >> THEN BigTimes(A, 1, c)
    ELSE <<(A[1] + B[1] + c) % 10000>>
             \o BigPlus(Tail(A), Tail(B), (A[1] + B[1] + c) \div 10000)

\* The limbs of A - B - c for A >= B + c, high zeros included
RECURSIVE BigMinus(_, _, _)
BigMinus(A, B, c) ==
    IF A = << >> THEN << >>
    ELSE IF B = << >>
         THEN <<(A[1] - c + 10000) % 10000>>
                  \o BigMinus(Tail(A), << >>, IF A[1] - c < 0 THEN 1 ELSE 0)
         ELSE <<(A[1] - B[1] - c + 10000) % 10000>>
                  \o BigMinus(Tail(A), Tail(B), IF A[1] - B[1] - c < 0 THEN 1 ELSE 0)

\* -1, 0 or 1 as A <, = or > B
BigCmp(A, B) ==
    IF Len(A) # Len(B) THEN (IF Len(A) < Len(B) THEN -1 ELSE 1)
    ELSE IF A = B THEN 0
    ELSE LET i == CHOOSE j \in 1..Len(A) :
                      A[j] # B[j] /\ \A h \in (j + 1)..Len(A) : A[h] = B[h]
         IN  IF A[i] < B[i] THEN -1 ELSE 1

\* N / 10^drop rounded to the nearest integer, a tie to the even one, on the
\* decimal digits of N and of the result
RoundDrop(N, drop) ==
    IF drop = 0 THEN N
    ELSE IF drop > Len(N) THEN << >>
    ELSE LET kept == SubSeq(N, drop + 1, Len(N))
             more == N[drop] > 5 \/ (N[drop] = 5 /\ \E i \in 1..(drop - 1) : N[i] # 0)
             tie == N[drop] = 5 /\ \A i \in 1..(drop - 1) : N[i] = 0
             up == more \/ (tie /\ kept # << >> /\ kept[1] % 2 = 1)
             nines == \A i \in 1..Len(kept) : kept[i] = 9
             j == IF nines THEN Len(kept) + 1
                  ELSE CHOOSE i \in 1..Len(kept) :
                           kept[i] # 9 /\ \A h \in 1..(i - 1) : kept[h] = 9
         IN  IF ~up THEN kept
             ELSE [i \in 1..(IF nines THEN Len(kept) + 1 ELSE Len(kept)) |->
                      IF i < j THEN 0 ELSE IF i = j
                      THEN (IF nines THEN 1 ELSE kept[i] + 1) ELSE kept[i]]

\* The payload of a float: NaN, or sign, mantissa and binary exponent
IsNaN(v) == Len(v) = 0

Negative(v) == (Len(v) = 2 /\ v[1] < 0) \/ (Len(v) = 3 /\ v[3] = "-")

Mantissa(v) ==
    IF Len(v) = 2 THEN BigOfInt(IF v[1] < 0 THEN -v[1] ELSE v[1])
    ELSE BigOfDigits(v[1])

Exponent(v) == v[2]

\* int(f) of a float: truncation towards zero
Trunc(v) ==
    LET N == DigitsOf(BigTimesPow(Mantissa(v), 5, Exponent(v)))
        n == IF Len(N) > Exponent(v)
             THEN BigToInt(BigOfDigits(SubSeq(N, Exponent(v) + 1, Len(N)))) ELSE 0
    IN  IF Negative(v) THEN -n ELSE n

\* a == b of two floats
FloatEq(a, b) ==
    /\ ~IsNaN(a)
    /\ ~IsNaN(b)
    /\ BigTimesPow(Mantissa(a), 2, Exponent(b)) = BigTimesPow(Mantissa(b), 2, Exponent(a))
    /\ (Negative(a) = Negative(b) \/ Mantissa(a) = << >>)

\* math.isclose(a, b, rel_tol=1e-9, abs_tol=1e-12) of two floats, in exact
\* arithmetic: both numbers are brought to the denominator 2^E
isclose(a, b) ==
    IF IsNaN(a) \/ IsNaN(b) THEN FALSE
    ELSE LET E == IF Exponent(a) > Exponent(b) THEN Exponent(a) ELSE Exponent(b)
             A == BigTimesPow(Mantissa(a), 2, E - Exponent(a))
             B == BigTimesPow(Mantissa(b), 2, E - Exponent(b))
             big == IF BigCmp(A, B) >= 0 THEN A ELSE B
             small == IF BigCmp(A, B) >= 0 THEN B ELSE A
             diff == IF Negative(a) = Negative(b)
                     THEN Canon(BigMinus(big, small, 0)) ELSE BigPlus(A, B, 0)
         IN  \/ diff = << >>
             \/ BigCmp(BigTimesPow(diff, 10, 9), big) <= 0
             \/ BigCmp(BigTimesPow(diff, 10, 12), BigTimesPow(<<1>>, 2, E)) <= 0

\* float(token) of the token that denotes the decimal number dec: the float
\* nearest to it, a tie going to the even mantissa.  The mantissa M of 53 bits
\* and the exponent e have M / 2^e nearest to dec; the binary exponent of a
\* number between 10^X and 10^(X+1) lies between 3X - |X| and 4X + |X| + 4.
\* Numbers of 2^53 and more are beyond this definition.
ReadFloat(dec) ==
    IF dec.digits = << >> THEN <<0, 0>>
    ELSE LET s == dec.exp - Len(dec.digits) + 1
             absX == IF dec.exp < 0 THEN -dec.exp ELSE dec.exp
             Dn == BigOfDigits(dec.digits)
             M(e) == IF s >= 0 THEN BigTimesPow(BigTimesPow(Dn, 10, s), 2, e)
                     ELSE BigOfDigits(RoundDrop(DigitsOf(BigTimesPow(Dn, 2, e)), -s))
             Two52 == BigOfDigits(<<6, 9, 4, 0, 7, 3, 7, 2, 6, 9, 9, 5, 3, 0, 5, 4>>)
             Two53 == BigTimes(Two52, 2, 0)
             lo == 52 - (4 * dec.exp + absX + 4)
             e == CHOOSE x \in (IF lo < 0 THEN 0 ELSE lo)..(52 - (3 * dec.exp - absX)) :
                      BigCmp(M(x), Two52) >= 0 /\ BigCmp(M(x), Two53) < 0
         IN  <<DigitsOf(M(e)), e, IF dec.neg THEN "-" ELSE "+">>

\* int(i) of a Python object: <<"ok", n>> or <<exception>>
PyIntOf(i) ==
    CASE i.k \in IntClasses \cup {"SupportsInt"} -> <<"ok", i.v>>
      [] i.k = "bool" -> <<"ok", IF i.v THEN 1 ELSE 0>>
      [] i.k = "float" -> IF IsNaN(i.v) THEN <<"ValueError">> ELSE <<"ok", Trunc(i.v)>>
      [] i.k = "str" -> <<"ValueError">>   \* no string of the model is a numeral
      [] OTHER -> <<"TypeError">>

\* self.write(str(n)) for the outcome n of int(i)
writeIntOf(st, n) == IF n[1] = "ok" THEN write(st, ToString(n[2])) ELSE Raise(st, n[1])

\* Writer.writeInt
writeInt(st, i) ==
    IF st.exc # "none" THEN st ELSE
    IF i.k = "bool" THEN Raise(st, "TypeError") ELSE writeIntOf(st, PyIntOf(i))

\* Writer.writeObj
writeObj(st, obj) ==
    IF st.exc # "none" THEN st ELSE
    write(st, ToString(obj.v))

\* Writer.writeBool
writeBool(st, b) ==
    IF st.exc # "none" THEN st ELSE
    writeInt(st, PyInt(IF b.v THEN 1 ELSE 0))

\* The precision of the format specification .19g
SigDigits == 19

\* The decimal number of p significant digits nearest to the float v, a tie
\* going to the even digit: the digits d (the ones first, neither end 0) and
\* the exponent X of d1.d2...dn * 10^X
Decimal(v, p) ==
    LET N == DigitsOf(BigTimesPow(Mantissa(v), 5, Exponent(v)))
        drop == IF Len(N) > p THEN Len(N) - p ELSE 0
        R == RoundDrop(N, drop)
        low == IF R = << >> THEN 0
               ELSE CHOOSE i \in 0..(Len(R) - 1) :
                        /\ R[i + 1] # 0
                        /\ \A j \in 1..i : R[j] = 0
    IN  [neg |-> Negative(v),
         digits |-> SubSeq(R, low + 1, Len(R)),
         exp |-> Len(R) + drop - Exponent(v) - 1]

\* The text of a sequence of digits, the highest first
RECURSIVE DigitText(_)
DigitText(D) ==
    IF D = << >> THEN ""
    ELSE IF Len(D) = 1 THEN ToString(D[1])
    ELSE DigitText(SubSeq(D, (Len(D) \div 2) + 1, Len(D)))
             \o DigitText(SubSeq(D, 1, Len(D) \div 2))

RECURSIVE Zeros(_)
Zeros(n) == IF n <= 0 THEN "" ELSE "0" \o Zeros(n - 1)

\* The presentation type g at precision p of the decimal number dec: the
\* scientific form when the exponent is below -4 or not below p, the fixed
\* form otherwise, insignificant trailing zeros and a trailing point removed
FormatG(dec, p) ==
    LET d == dec.digits
        n == Len(d)
        X == dec.exp
    IN  (IF dec.neg THEN "-" ELSE "") \o
        (IF n = 0 THEN "0"
         ELSE IF X < -4 \/ X >= p
         THEN DigitText(<<d[n]>>)
                  \o (IF n > 1 THEN "." \o DigitText(SubSeq(d, 1, n - 1)) ELSE "")
                  \o "e" \o (IF X < 0 THEN "-" ELSE "+")
                  \o (IF X > -10 /\ X < 10 THEN "0" ELSE "")
                  \o ToString(IF X < 0 THEN -X ELSE X)
         ELSE IF X >= n - 1 THEN DigitText(d) \o Zeros(X - n + 1)
         ELSE IF X >= 0
         THEN DigitText(SubSeq(d, n - X, n)) \o "." \o DigitText(SubSeq(d, 1, n - X - 1))
         ELSE "0." \o Zeros(-X - 1) \o DigitText(d))

\* The same format at 17 significant digits, which identify a float as well.
Format17g(v) == IF IsNaN(v) THEN "nan" ELSE FormatG(Decimal(v, 17), 17)

\* f"{f:.19g}" of the float with payload v
Format19g(v) == IF IsNaN(v) THEN "nan" ELSE FormatG(Decimal(v, SigDigits), SigDigits)

\* Writer.writeFloat
writeFloat(st, f) ==
    IF st.exc # "none" THEN st ELSE
    write(st, Format19g(f.v))

\* ------------------------------------------------- typed values and waifs

RECURSIVE writeValue(_, _)
RECURSIVE writeListItems(_, _, _)
RECURSIVE writeMapItems(_, _, _)
RECURSIVE writeWaifProps(_, _, _)

\* Writer.writeListContents: for item in lst, from the i-th item on
writeListItems(st, lst, i) ==
    IF i > Len(lst) \/ st.exc # "none" THEN st
    ELSE writeListItems(writeValue(st, lst[i]), lst, i + 1)

\* Writer.writeListContents
writeListContents(st, lst) ==
    IF st.exc # "none" THEN st ELSE
    writeListItems(writeNl(writeInt(st, PyInt(Len(lst)))), lst, 1)

\* Writer.writeMapContents: for key, value in m.items(), from the i-th on
writeMapItems(st, m, i) ==
    IF i > Len(m) \/ st.exc # "none" THEN st
    ELSE writeMapItems(writeValue(writeValue(st, m[i][1]), m[i][2]), m, i + 1)

\* Writer.writeMapContents
writeMapContents(st, m) ==
    IF st.exc # "none" THEN st ELSE
    writeMapItems(writeNl(writeInt(st, PyInt(Len(m)))), m, 1)

\* original_index in self._written_waifs
IsWritten(tab, original_index) == original_index \in DOMAIN tab

\* write_index = len(self._written_waifs)
NextWriteIndex(tab) == Cardinality(DOMAIN tab)

\* A table that maps both ways: the write index becomes a key as well.
Register_bothWays(tab, original_index, write_index) ==
    [i \in DOMAIN tab \cup {original_index, write_index} |->
        IF i \in {original_index, write_index} THEN write_index ELSE tab[i]]

\* self._written_waifs[original_index] = write_index
Register(tab, original_index, write_index) ==
    [i \in DOMAIN tab \cup {original_index} |->
        IF i = original_index THEN write_index ELSE tab[i]]

\* f"c {write_index}": the header of a definition record
DefinitionHeader(write_index) == "c " \o ToString(write_index)

\* A reference written with the marker of a definition.
ReferenceHeader_asDefinition(write_index) == "c " \o ToString(write_index)

\* f"r {write_index}": the header of a reference record
ReferenceHeader(write_index) == "r " \o ToString(write_index)

\* slot_idx, prop_value = <element of waif.props>: <<"ok", slot, value>> or
\* <<exception>>.  A str of two characters unpacks into two one-character
\* strings, of which the first then fails int() (no string of the model holds
\* a digit): the same ValueError, with nothing written in between.
Unpack(x) ==
    CASE x.k \in {"tuple", "list"} ->
            IF Len(x.v) = 2 THEN <<"ok", x.v[1], x.v[2]>> ELSE <<"ValueError">>
      [] x.k = "dict" ->
            IF Len(x.v) = 2 THEN <<"ok", x.v[1][1], x.v[2][1]>> ELSE <<"ValueError">>
      [] x.k = "str" -> <<"ValueError">>
      [] OTHER -> <<"TypeError">>

\* self.writeInt(slot_idx); self.write(nl); self.writeValue(prop_value), for
\* the outcome u of unpacking one element of waif.props
writeWaifProp(st, u) ==
    IF st.exc # "none" THEN st ELSE
    IF u[1] # "ok" THEN Raise(st, u[1])
    ELSE writeValue(writeNl(writeInt(st, u[2])), u[3])

\* Writer.writeWaif: for slot_idx, prop_value in waif.props, from the i-th on
writeWaifProps(st, props, i) ==
    IF i > Len(props) \/ st.exc # "none" THEN st
    ELSE writeWaifProps(writeWaifProp(st, Unpack(props[i])), props, i + 1)

\* Writer.writeWaif: the header, class, owner and propdefs_length lines
writeWaifHead(st, waif, write_index) ==
    IF st.exc # "none" THEN st ELSE
    writeNl(writeInt(
        writeNl(writeInt(
            writeNl(writeInt(
                writeString(st, DefinitionHeader(write_index)),
                PyInt(waif.waif_class))),
            PyInt(waif.owner))),
        PyInt(waif.propdefs_length)))

\* Writer.writeWaif: the terminator of the properties and of the record
writeWaifEnd(st) ==
    IF st.exc # "none" THEN st ELSE
    writeString(writeNl(writeInt(st, PyInt(-1))), ".")

\* Writer.writeWaif: the definition branch, after the index is registered
writeWaifDefinition(st, original_index, write_index) ==
    IF st.exc # "none" THEN st ELSE
    IF original_index \notin DOMAIN db.waifs THEN Raise(st, "KeyError")
    ELSE writeWaifEnd(
             writeWaifProps(
                 writeWaifHead(st, db.waifs[original_index], write_index),
                 db.waifs[original_index].props, 1))

\* The writer state with the encounter of a waif at the next line noted
Encounter(st, original_index) ==
    [st EXCEPT !.enc = Append(@, <<original_index, Len(st.lines) + 1>>)]

\* A writeWaif that registers the index when the properties are written: a
\* waif met while its own definition is under way is defined again, without
\* end, until the interpreter raises RecursionError.
writeWaif_registersLast(st, waif_ref) ==
    IF st.exc # "none" THEN st
    ELSE IF IsWritten(st.written_waifs, waif_ref.v)
    THEN writeString(
             writeString(Encounter(st, waif_ref.v),
                         ReferenceHeader(st.written_waifs[waif_ref.v])),
             ".")
    ELSE IF \E n \in 1..Len(st.enc) : st.enc[n][1] = waif_ref.v
    THEN Raise(st, "RecursionError")
    ELSE [writeWaifDefinition(Encounter(st, waif_ref.v), waif_ref.v,
                              NextWriteIndex(st.written_waifs))
          EXCEPT !.written_waifs = Register(@, waif_ref.v, NextWriteIndex(@))]

\* Writer.writeWaif
writeWaif(st, waif_ref) ==
    IF st.exc # "none" THEN st
    ELSE IF IsWritten(st.written_waifs, waif_ref.v)
    THEN writeString(
             writeString(Encounter(st, waif_ref.v),
                         ReferenceHeader(st.written_waifs[waif_ref.v])),
             ".")
    ELSE writeWaifDefinition(
             [Encounter(st, waif_ref.v) EXCEPT !.written_waifs =
                 Register(@, waif_ref.v, NextWriteIndex(st.written_waifs))],
             waif_ref.v, NextWriteIndex(st.written_waifs))

\* Writer.writeList
writeList(st, lst) ==
    IF st.exc # "none" THEN st ELSE
    writeListContents(writeNl(writeInt(st, PyInt(LIST))), lst.v)

\* Writer.writeMap
writeMap(st, m) ==
    IF st.exc # "none" THEN st ELSE
    writeMapContents(writeNl(writeInt(st, PyInt(MAP))), m.v)

\* A type tag taken from the numeric nature of the value: every int subclass
\* tagged as a plain integer.
TypeTag_intSubclassesAsInt(k) ==
    CASE k = "bool" -> BOOL
      [] k \in IntClasses \cup {"SupportsInt"} -> INT
      [] k = "str" -> STR
      [] k = "float" -> FLOAT
      [] k = "list" -> LIST
      [] k = "dict" -> MAP
      [] k = "Clear" -> CLEAR
      [] k = "NoneType" -> NONE
      [] k = "WaifReference" -> WAIF
      [] OTHER -> -1

\* The type tag writeValue writes for an object of class k; -1: none, it raises
TypeTag(k) ==
    CASE k = "bool" -> BOOL
      [] k = "MooError" -> ERR
      [] k = "MooCatch" -> CATCH
      [] k = "MooFinally" -> FINALLY
      [] k = "ObjNum" -> OBJ
      [] k = "Anon" -> ANON
      [] k = "int" -> INT
      [] k = "str" -> STR
      [] k = "float" -> FLOAT
      [] k = "list" -> LIST
      [] k = "dict" -> MAP
      [] k = "Clear" -> CLEAR
      [] k = "NoneType" -> NONE
      [] k = "WaifReference" -> WAIF
      [] k = "SupportsInt" -> INT
      [] OTHER -> -1

\* Writer.writeValue: what follows the type tag
writeTagged(st, v) ==
    IF st.exc # "none" THEN st ELSE
    CASE v.k = "bool" -> writeNl(writeBool(st, v))
      [] v.k \in {"MooError", "int", "SupportsInt"} -> writeNl(writeInt(st, v))
      [] v.k \in {"MooCatch", "MooFinally", "Anon"} -> writeNl(writeInt(st, PyInt(v.v)))
      [] v.k = "ObjNum" -> writeNl(writeObj(st, v))
      [] v.k = "str" -> writeString(st, v.v)
      [] v.k = "float" -> writeNl(writeFloat(st, v))
      [] v.k = "list" -> writeListContents(st, v.v)
      [] v.k = "dict" -> writeMapContents(st, v.v)
      [] v.k \in {"Clear", "NoneType"} -> st
      [] v.k = "WaifReference" -> writeWaif(st, v)

\* Writer.writeValue
writeValue(st, v) ==
    IF st.exc # "none" THEN st
    ELSE IF TypeTag(v.k) = -1 THEN Raise(st, "TypeError")
    ELSE writeTagged(writeNl(writeInt(st, PyInt(TypeTag(v.k)))), v)

\* Writer.writeRawValue
writeRawValue(st, v) ==
    IF st.exc # "none" THEN st
    ELSE CASE v.k = "bool" -> writeNl(writeBool(st, v))
           [] v.k \in {"MooError", "SupportsInt"} \cup IntClasses -> 
                  IF v.k = "ObjNum" THEN writeNl(writeObj(st, v))
                  ELSE writeNl(writeInt(st, v))
           [] v.k = "str" -> writeString(st, v.v)
           [] v.k = "float" -> writeNl(writeFloat(st, v))
           [] v.k = "list" -> writeListContents(st, v.v)
           [] v.k = "dict" -> writeMapContents(st, v.v)
           [] v.k \in {"Clear", "NoneType"} -> st
           [] OTHER -> Raise(st, "TypeError")

\* ----------------------------------------------------------- entity model

\* database.Verb; code is [some |-> FALSE] for None (no program), otherwise
\* the program's lines
NoCode == [some |-> FALSE, text |-> << >>]
Code(text) == [some |-> TRUE, text |-> text]
Verb(name, owner, perms, preps, object, code) ==
    [name |-> name, owner |-> owner, perms |-> perms, preps |-> preps,
     object |-> object, code |-> code]

\* database.Property
Property(propertyName, value, owner, perms) ==
    [propertyName |-> propertyName, value |-> value, owner |-> owner, perms |-> perms]

\* database.MooObject
MooObject(id, name, flags, owner, location, parents) ==
    [id |-> id, name |-> name, flags |-> flags, owner |-> owner,
     location |-> location, parents |-> parents, children |-> << >>,
     last_move |-> PyInt(-1), contents |-> << >>, verbs |-> << >>,
     properties |-> << >>, propdefs_count |-> 0, anon |-> FALSE]

\* db.objects is a dict keyed by object id: here the sequence of its values
\* in insertion order, each stored under its own id.
ObjectKeys(d) == { d.objects[n].id : n \in 1..Len(d.objects) }

\* self.db.objects[obj_id]
ObjectAt(d, obj_id) ==
    d.objects[CHOOSE n \in 1..Len(d.objects) : d.objects[n].id = obj_id]

\* MooDatabase.all_verbs
RECURSIVE all_verbs_from(_, _)
all_verbs_from(d, n) ==
    IF n > Len(d.objects) THEN << >>
    ELSE d.objects[n].verbs \o all_verbs_from(d, n + 1)

all_verbs(d) == all_verbs_from(d, 1)

\* Writer.writeCollection: the count line, without a template and with one.
\* The loop over the items is written out for each writer passed to it.
writeCollectionCount(st, collection) ==
    IF st.exc # "none" THEN st ELSE
    writeNl(writeInt(st, PyInt(Len(collection))))

writeCollectionBanner(st, banner) ==
    IF st.exc # "none" THEN st ELSE
    writeString(st, banner)

RECURSIVE writeStringEach(_, _, _)
\* for item in collection: self.writeString(item), from the n-th line on
writeStringEach(st, collection, n) ==
    IF n > Len(collection) \/ st.exc # "none" THEN st
    ELSE writeStringEach(writeString(st, collection[n]), collection, n + 1)

\* Writer.writeCode
writeCode(st, code) ==
    IF st.exc # "none" THEN st ELSE
    writeString(writeStringEach(st, code, 1), ".")

\* list.index(x): the first position, from 0, of an element equal to x;
\* -1 when there is none (ValueError)
ListIndex(lst, x) ==
    IF \E n \in 1..Len(lst) : lst[n] = x
    THEN (CHOOSE n \in 1..Len(lst) :
              lst[n] = x /\ \A j \in 1..(n - 1) : lst[j] # x) - 1
    ELSE -1

\* f"#{objnum}:{index}"
VerbLocator(objnum, index) == "#" \o ToString(objnum) \o ":" \o ToString(index)

\* Writer.writeVerb
writeVerb(st, verb) ==
    IF st.exc # "none" THEN st
    ELSE IF verb.object \notin ObjectKeys(db) THEN Raise(st, "KeyError")
    ELSE IF ListIndex(ObjectAt(db, verb.object).verbs, verb) = -1
    THEN Raise(st, "ValueError")
    ELSE writeCode(
             writeString(st, VerbLocator(verb.object,
                                         ListIndex(ObjectAt(db, verb.object).verbs, verb))),
             verb.code.text)

\* A filter that keeps every verb, with or without code.
HasProgram_always(verb) == TRUE

\* [v for v in self.db.all_verbs() if v.code is not None]
HasProgram(verb) == verb.code.some

verbs_with_programs(d) == SelectSeq(all_verbs(d), HasProgram)

RECURSIVE writeVerbEach(_, _, _)
\* for item in collection: self.writeVerb(item), from the n-th verb on
writeVerbEach(st, collection, n) ==
    IF n > Len(collection) \/ st.exc # "none" THEN st
    ELSE writeVerbEach(writeVerb(st, collection[n]), collection, n + 1)

\* Writer.writeVerbs
writeVerbs(st) ==
    IF st.exc # "none" THEN st ELSE
    writeVerbEach(writeCollectionCount(st, verbs_with_programs(db)),
                  verbs_with_programs(db), 1)

\* Writer.writeVerbMetadata
writeVerbMetadata(st, verb) ==
    IF st.exc # "none" THEN st ELSE
    writeNl(writeInt(
        writeNl(writeInt(
            writeNl(writeInt(
                writeString(st, verb.name),
                PyInt(verb.owner))),
            PyInt(verb.perms))),
        PyInt(verb.preps)))

RECURSIVE writeVerbMetadataEach(_, _, _)
\* for item in collection: self.writeVerbMetadata(item), from the n-th verb on
writeVerbMetadataEach(st, collection, n) ==
    IF n > Len(collection) \/ st.exc # "none" THEN st
    ELSE writeVerbMetadataEach(writeVerbMetadata(st, collection[n]), collection, n + 1)

\* Writer.writeProperty: the owner and perms lines
writePropertyOwnerPerms(st, prop) ==
    IF st.exc # "none" THEN st ELSE
    writeNl(writeInt(writeNl(writeInt(st, PyInt(prop.owner))), PyInt(prop.perms)))

\* Writer.writeProperty
writeProperty(st, prop) ==
    IF st.exc # "none" THEN st ELSE
    writePropertyOwnerPerms(writeValue(st, prop.value), prop)

RECURSIVE writePropertyEach(_, _, _)
\* for item in collection: self.writeProperty(item), from the n-th property on
writePropertyEach(st, collection, n) ==
    IF n > Len(collection) \/ st.exc # "none" THEN st
    ELSE writePropertyEach(writeProperty(st, collection[n]), collection, n + 1)

\* lst[:n] for n >= 0
Prefix(lst, n) == SubSeq(lst, 1, IF n < Len(lst) THEN n ELSE Len(lst))

\* self.writeString(prop.propertyName)
writePropertyName(st, prop) ==
    IF st.exc # "none" THEN st ELSE
    writeString(st, prop.propertyName)

RECURSIVE writePropertyNameEach(_, _, _)
\* for item in collection: self.writePropertyName(item), from the n-th property on
writePropertyNameEach(st, collection, n) ==
    IF n > Len(collection) \/ st.exc # "none" THEN st
    ELSE writePropertyNameEach(writePropertyName(st, collection[n]), collection, n + 1)

\* Writer.write_properties
write_properties(st, obj) ==
    IF st.exc # "none" THEN st ELSE
    writePropertyEach(
        writeNl(writeInt(
            writePropertyNameEach(
                writeNl(writeInt(st, PyInt(obj.propdefs_count))),
                Prefix(obj.properties, obj.propdefs_count), 1),
            PyInt(Len(obj.properties)))),
        obj.properties, 1)

\* [ObjNum(c) for c in ids]
AsObjNums(ids) == PyList([n \in 1..Len(ids) |-> ObjNum(ids[n])])

\* A parent field that is a list whatever the number of parents.
writeParents_alwaysList(st, parents) == writeValue(st, AsObjNums(parents))

\* Writer.writeObject: the parent field
writeParents(st, parents) ==
    IF st.exc # "none" THEN st ELSE
    IF Len(parents) = 0 THEN writeValue(st, ObjNum(-1))
    ELSE IF Len(parents) = 1 THEN writeValue(st, ObjNum(parents[1]))
    ELSE writeValue(st, AsObjNums(parents))

\* f"#{obj_num}"
ObjectHeader(obj_num) == "#" \o ToString(obj_num)

\* Writer.writeObject: the header, name, flags and owner lines
writeObjectHead(st, obj) ==
    IF st.exc # "none" THEN st ELSE
    writeNl(writeInt(
        writeNl(writeInt(
            writeString(
                writeString(st, ObjectHeader(obj.id)),
                obj.name),
            PyInt(obj.flags))),
        PyInt(obj.owner)))

\* Writer.writeObject: location, last_move, contents, parents and children
writeObjectLinks(st, obj) ==
    IF st.exc # "none" THEN st ELSE
    writeValue(
        writeParents(
            writeValue(
                writeValue(
                    writeValue(st, obj.location),
                    obj.last_move),
                AsObjNums(obj.contents)),
            obj.parents),
        AsObjNums(obj.children))

\* Writer.writeObject
writeObject(st, obj) ==
    IF st.exc # "none" THEN st ELSE
    write_properties(
        writeVerbMetadataEach(
            writeCollectionCount(
                writeObjectLinks(writeObjectHead(st, obj), obj),
                obj.verbs),
            obj.verbs, 1),
        obj)

RECURSIVE writeObjectEach(_, _, _)
\* for item in collection: self.writeObject(item), from the n-th object on
writeObjectEach(st, collection, n) ==
    IF n > Len(collection) \/ st.exc # "none" THEN st
    ELSE writeObjectEach(writeObject(st, collection[n]), collection, n + 1)

\* f"# {obj_id} recycled"
RecycledLine(obj_id) == "# " \o ToString(obj_id) \o " recycled"

\* A dense entry that looks the id up in db.objects before db.recycled_objects.
writeDenseEntry_objectFirst(st, obj_id) ==
    IF obj_id \in ObjectKeys(db) THEN writeObject(st, ObjectAt(db, obj_id))
    ELSE IF obj_id \in db.recycled_objects THEN writeString(st, RecycledLine(obj_id))
    ELSE Raise(st, "ValueError")

\* Writer.writeObjects: the entry of one id of range(total_objects)
writeDenseEntry(st, obj_id) ==
    IF st.exc # "none" THEN st
    ELSE IF obj_id \in db.recycled_objects THEN writeString(st, RecycledLine(obj_id))
    ELSE IF obj_id \in ObjectKeys(db) THEN writeObject(st, ObjectAt(db, obj_id))
    ELSE Raise(st, "ValueError")

RECURSIVE writeDenseEntryEach(_, _, _)
\* for item in collection: the entry of item, from the n-th id on
writeDenseEntryEach(st, collection, n) ==
    IF n > Len(collection) \/ st.exc # "none" THEN st
    ELSE writeDenseEntryEach(writeDenseEntry(st, collection[n]), collection, n + 1)

\* obj.anon or obj.id >= self.db.total_objects
IsAnonObject(obj) == obj.anon \/ obj.id >= db.total_objects

\* The anonymous objects left in the order db.objects holds them.
SortedById_asInserted(objs) == objs

\* sorted(objs, key=lambda o: o.id), the ids being distinct
RECURSIVE SortedById(_)
SortedById(objs) ==
    IF objs = << >> THEN << >>
    ELSE LET n == CHOOSE n \in 1..Len(objs) :
                      \A j \in 1..Len(objs) : objs[n].id <= objs[j].id
             rest == [j \in 1..(Len(objs) - 1) |->
                         IF j < n THEN objs[j] ELSE objs[j + 1]]
         IN  <<objs[n]>> \o SortedById(rest)

anon_objects(d) == SelectSeq(d.objects, IsAnonObject)

\* Writer.writeObjects: the anonymous objects, when there are any
writeAnonObjects(st, objs) ==
    IF st.exc # "none" THEN st ELSE
    IF objs = << >> THEN st
    ELSE writeObjectEach(writeNl(writeInt(st, PyInt(Len(objs)))), SortedById(objs), 1)

\* Writer.writeObjects: the closing line
writeObjectsEnd(st) ==
    IF st.exc # "none" THEN st ELSE
    writeNl(writeInt(st, PyInt(0)))

\* Writer.writeObjects
writeObjects(st) ==
    IF st.exc # "none" THEN st ELSE
    writeObjectsEnd(
        writeAnonObjects(
            writeDenseEntryEach(
                writeNl(writeInt(st, PyInt(db.total_objects))),
                [n \in 1..db.total_objects |-> n - 1], 1),
            anon_objects(db)))

\* ------------------------------------------------------ tasks and sections

\* str(x) of a value, as str.format writes a field
PyFormat(x) ==
    CASE x.k \in IntClasses \cup {"SupportsInt"} ->
             IF x.k = "ObjNum" THEN "#" \o ToString(x.v) ELSE ToString(x.v)
      [] x.k = "bool" -> IF x.v THEN "True" ELSE "False"
      [] x.k = "NoneType" -> "None"
      [] x.k = "str" -> x.v
      [] OTHER -> "?"

\* lambdamoo_db/templates.py: the banners and header lines
template_version(version) ==
    "** LambdaMOO Database, Format Version " \o ToString(version) \o " **"
template_pending_values_count(count) == ToString(count) \o " values pending finalization"
template_clock_count(count) == ToString(count) \o " clocks"
template_task_count(count) == ToString(count) \o " queued tasks"
template_suspended_task_count(count) == ToString(count) \o " suspended tasks"
template_interrupted_task_count(count) == ToString(count) \o " interrupted tasks"
template_var_count(count) == ToString(count) \o " variables"
template_langver(version) == "language version " \o ToString(version)
template_stack_header(slots) == ToString(slots) \o " rt_stack slots in use"
template_pc(pc, bi_func, error) ==
    ToString(pc) \o " " \o ToString(bi_func) \o " " \o ToString(error)
template_vm_header(vm) ==
    ToString(vm.top) \o " " \o ToString(vm.vector) \o " " \o ToString(vm.funcId)
        \o " " \o ToString(vm.maxStackframes)
template_task_header(task) ==
    ToString(task.unused) \o " " \o ToString(task.firstLineno) \o " "
        \o ToString(task.st) \o " " \o ToString(task.id)
template_activation_header(a) ==
    PyFormat(a.this) \o " " \o ToString(a.unused1) \o " " \o ToString(a.unused2)
        \o " " \o PyFormat(a.player) \o " " \o ToString(a.unused3)
        \o " " \o PyFormat(a.programmer) \o " " \o PyFormat(a.vloc)
        \o " " \o ToString(a.unused4) \o " " \o PyFormat(a.debug)

\* database.TYPE_MAPPING.get(type(value), MooTypes.INT)
TYPE_MAPPING(k) ==
    CASE k = "int" -> INT
      [] k = "str" -> STR
      [] k = "ObjNum" -> OBJ
      [] k = "float" -> FLOAT
      [] k = "list" -> LIST
      [] k = "dict" -> MAP
      [] k = "bool" -> BOOL
      [] k = "NoneType" -> NONE
      [] OTHER -> INT

\* Writer.writeRtEnv: one variable; env is a dict of name -> value
writeRtEnvItem(st, item) ==
    IF st.exc # "none" THEN st ELSE
    IF TYPE_MAPPING(item[2].k) # NONE
    THEN writeRawValue(
             writeNl(writeInt(writeString(st, item[1]),
                              PyInt(TYPE_MAPPING(item[2].k)))),
             item[2])
    ELSE writeNl(writeInt(writeString(st, item[1]), PyInt(NONE)))

RECURSIVE writeRtEnvItemEach(_, _, _)
\* for name, value in env.items(), from the n-th variable on
writeRtEnvItemEach(st, collection, n) ==
    IF n > Len(collection) \/ st.exc # "none" THEN st
    ELSE writeRtEnvItemEach(writeRtEnvItem(st, collection[n]), collection, n + 1)

\* Writer.writeRtEnv
writeRtEnv(st, env) ==
    IF st.exc # "none" THEN st ELSE
    writeRtEnvItemEach(writeString(st, template_var_count(Len(env))), env, 1)

\* Writer.writeActivationAsPI: the lines after the three temporary values
writeActivationAsPILines(st, activation) ==
    IF st.exc # "none" THEN st ELSE
    writeString(writeString(
        writeString(writeString(writeString(writeString(
            writeString(
                writeNl(writeInt(st, IF activation.threaded.k # "NoneType"
                                     THEN activation.threaded ELSE PyInt(0))),
                template_activation_header(activation)),
            "No"), "More"), "Parse"), "Infos"),
        activation.verb), activation.verbname)

\* Writer.writeActivationAsPI
writeActivationAsPI(st, activation) ==
    IF st.exc # "none" THEN st ELSE
    writeActivationAsPILines(
        writeValue(
            writeValue(
                writeValue(st, activation.temp_value),
                activation.temp_this),
            activation.temp_vloc),
        activation)

\* Writer.writeActivation: the language version, code, variables and stack
writeActivationFrame(st, activation) ==
    IF st.exc # "none" THEN st ELSE
    writeListItems(
        writeString(
            writeRtEnv(
                writeCode(
                    writeString(st, template_langver(17)),
                    activation.code),
                activation.rtEnv),
            template_stack_header(Len(activation.stack))),
        activation.stack, 1)

\* Writer.writeActivation: if activation.bi_func and activation.bi_func_name
writeBiFuncName(st, activation) ==
    IF st.exc # "none" THEN st ELSE
    IF activation.bi_func # 0 /\ activation.bi_func_name # ""
    THEN writeString(st, activation.bi_func_name) ELSE st

\* Writer.writeActivation: temp_end, the pc line and the built-in function name
writeActivationEnd(st, activation) ==
    IF st.exc # "none" THEN st ELSE
    writeBiFuncName(
        writeString(
            writeValue(st, activation.temp_end),
            template_pc(activation.pc, activation.bi_func, activation.error)),
        activation)

\* Writer.writeActivation
writeActivation(st, activation) ==
    IF st.exc # "none" THEN st ELSE
    writeActivationEnd(
        writeActivationAsPI(writeActivationFrame(st, activation), activation),
        activation)

RECURSIVE writeActivationEach(_, _, _)
\* for item in collection: self.writeActivation(item), from the n-th activation on
writeActivationEach(st, collection, n) ==
    IF n > Len(collection) \/ st.exc # "none" THEN st
    ELSE writeActivationEach(writeActivation(st, collection[n]), collection, n + 1)

\* Writer.writeVM
writeVM(st, vm) ==
    IF st.exc # "none" THEN st ELSE
    writeActivationEach(writeString(writeValue(st, vm.locals), template_vm_header(vm)),
                        vm.stack, 1)

\* Writer.writeQueuedTask
writeQueuedTask(st, task) ==
    IF st.exc # "none" THEN st ELSE
    writeCode(
        writeRtEnv(
            writeActivationAsPI(
                writeString(st, template_task_header(task)),
                task.activation),
            task.rtEnv),
        task.code)

\* Writer.writeSuspendedTask
writeSuspendedTask(st, task) ==
    IF st.exc # "none" THEN st ELSE
    writeVM(
        IF task.value.k # "NoneType"
        THEN writeRawValue(
                 writeString(st, ToString(task.startTime) \o " " \o ToString(task.id)
                                     \o " " \o ToString(TYPE_MAPPING(task.value.k))),
                 task.value)
        ELSE writeString(st, ToString(task.startTime) \o " " \o ToString(task.id)),
        task.vm)

\* Writer.writeInterruptedTask
writeInterruptedTask(st, task) ==
    IF st.exc # "none" THEN st ELSE
    writeVM(writeString(st, ToString(task.id) \o " " \o task.status), task.vm)

RECURSIVE writeQueuedTaskEach(_, _, _)
\* for item in collection: self.writeQueuedTask(item), from the n-th task on
writeQueuedTaskEach(st, collection, n) ==
    IF n > Len(collection) \/ st.exc # "none" THEN st
    ELSE writeQueuedTaskEach(writeQueuedTask(st, collection[n]), collection, n + 1)

RECURSIVE writeSuspendedTaskEach(_, _, _)
\* for item in collection: self.writeSuspendedTask(item), from the n-th task on
writeSuspendedTaskEach(st, collection, n) ==
    IF n > Len(collection) \/ st.exc # "none" THEN st
    ELSE writeSuspendedTaskEach(writeSuspendedTask(st, collection[n]), collection, n + 1)

RECURSIVE writeInterruptedTaskEach(_, _, _)
\* for item in collection: self.writeInterruptedTask(item), from the n-th task on
writeInterruptedTaskEach(st, collection, n) ==
    IF n > Len(collection) \/ st.exc # "none" THEN st
    ELSE writeInterruptedTaskEach(writeInterruptedTask(st, collection[n]), collection, n + 1)

\* Writer.writeClocks
writeClocks(st) ==
    IF st.exc # "none" THEN st ELSE
    writeStringEach(writeCollectionBanner(st, template_clock_count(Len(db.clocks))),
                    db.clocks, 1)

\* Writer.writeTaskQueue
writeTaskQueue(st) ==
    IF st.exc # "none" THEN st ELSE
    writeQueuedTaskEach(
        writeCollectionBanner(st, template_task_count(Len(db.queuedTasks))),
        db.queuedTasks, 1)

\* Writer.writeSuspendedTasks
writeSuspendedTasks(st) ==
    IF st.exc # "none" THEN st ELSE
    writeSuspendedTaskEach(
        writeCollectionBanner(st, template_suspended_task_count(Len(db.suspendedTasks))),
        db.suspendedTasks, 1)

\* Writer.writeInterruptedTasks
writeInterruptedTasks(st) ==
    IF st.exc # "none" THEN st ELSE
    writeInterruptedTaskEach(
        writeCollectionBanner(st,
            template_interrupted_task_count(Len(db.interruptedTasks))),
        db.interruptedTasks, 1)

\* f"{len(self.db.connections)} active connections{...}"
ConnectionsHeader(d) ==
    ToString(Len(d.connections)) \o " active connections" \o d.connections_with_listeners

\* Writer.writeConnections
writeConnections(st) ==
    IF st.exc # "none" THEN st ELSE
    writeStringEach(writeString(st, ConnectionsHeader(db)), db.connections, 1)

\* self.writeInt(player); self.write(nl)
writePlayer(st, player) ==
    IF st.exc # "none" THEN st ELSE
    writeNl(writeInt(st, PyInt(player)))

RECURSIVE writePlayerEach(_, _, _)
\* for item in collection: the line of item, from the n-th player on
writePlayerEach(st, collection, n) ==
    IF n > Len(collection) \/ st.exc # "none" THEN st
    ELSE writePlayerEach(writePlayer(st, collection[n]), collection, n + 1)

\* Writer.writePlayers
writePlayers(st) ==
    IF st.exc # "none" THEN st ELSE
    writePlayerEach(writeCollectionCount(st, db.players), db.players, 1)

\* Writer.writePending: the type tag and the id of one pending anonymous object
writePendingAnon(st, anon_id) ==
    IF st.exc # "none" THEN st ELSE
    writeNl(writeInt(writeNl(writeInt(st, PyInt(ANON))), PyInt(anon_id)))

RECURSIVE writePendingAnonEach(_, _, _)
\* for item in collection: the lines of item, from the n-th id on
writePendingAnonEach(st, collection, n) ==
    IF n > Len(collection) \/ st.exc # "none" THEN st
    ELSE writePendingAnonEach(writePendingAnon(st, collection[n]), collection, n + 1)

\* Writer.writePending
writePending(st) ==
    IF st.exc # "none" THEN st ELSE
    writePendingAnonEach(
        writeString(st, template_pending_values_count(Len(db.pending_anon_ids))),
        db.pending_anon_ids, 1)

\* A database written with the object table before the connections.
writeDatabase_objectsFirst(st) ==
    writeVerbs(
    writeConnections(
    writeObjects(
    writeInterruptedTasks(
    writeSuspendedTasks(
    writeTaskQueue(
    writeClocks(
    writePending(
    writePlayers(
    writeString(st, template_version(17)))))))))))

\* Writer.writeDatabase
writeDatabase(st) ==
    IF st.exc # "none" THEN st ELSE
    writeVerbs(
    writeObjects(
    writeConnections(
    writeInterruptedTasks(
    writeSuspendedTasks(
    writeTaskQueue(
    writeClocks(
    writePending(
    writePlayers(
    writeString(st, template_version(17)))))))))))

\* ------------------------------------------------------------- compare.py

\* compare.DiffKind
VALUE_CHANGED == "changed"
TYPE_MISMATCH == "type_mismatch"
MISSING == "missing"
EXTRA == "extra"
LENGTH_MISMATCH == "length_mismatch"

\* compare.DiffPath: the tuple of segments, a segment being a str or an int;
\* the int i is <<"int", "i">> and the str s is <<"str", s>>
StrSeg(s) == <<"str", s>>
IntSeg(i) == <<"int", ToString(i)>>

\* DiffPath.child
child(path, segment) == Append(path, segment)

\* DiffPath.root
root == << >>

\* DiffPath.object
ObjectPath(obj_id) == <<StrSeg("#" \o ToString(obj_id))>>

\* compare.Diff
Diff(path, kind, expected, actual) ==
    [path |-> path, kind |-> kind, expected |-> expected, actual |-> actual]

\* type(x), and a list of ints or of strs as the value it is
PyType(x) == [k |-> "type", v |-> x.k]
IntList(s) == PyList([i \in 1..Len(s) |-> PyInt(s[i])])
StrList(s) == PyList([i \in 1..Len(s) |-> PyStr(s[i])])

\* a != b of two scalar values: numbers (int and its subclasses, bool, float)
\* compare by their numeric value whatever their classes, a NaN differs from
\* everything, other values are equal when of one class and one content
PyNe(a, b) ==
    LET Numbers == IntClasses \cup {"bool", "float"}
        Num(x) == IF x.k = "float" THEN x.v
                  ELSE IF x.k = "bool" THEN <<IF x.v THEN 1 ELSE 0, 0>>
                  ELSE <<x.v, 0>>
    IN  IF a.k \in Numbers /\ b.k \in Numbers THEN ~FloatEq(Num(a), Num(b))
        ELSE a.k # b.k \/ a.v # b.v

\* sorted(S) of a set of ints
RECURSIVE SortedInts(_)
SortedInts(S) ==
    IF S = {} THEN << >>
    ELSE LET m == CHOOSE x \in S : \A y \in S : x <= y
         IN  <<m>> \o SortedInts(S \ {m})

\* The strings that are property names or map keys in the comparisons, in
\* the order of str, and the map keys in the order of (type(k).__name__, str(k))
NameOrder == <<"a", "b", "counter", "k", "l", "w">>
KeyOrder == <<PyInt(1), PyInt(2), PyStr("a"), PyStr("k")>>

\* sorted(S, key=...) of a set of names or of keys: those of the order that
\* are in S
SortedIn(order, S) == LET In(x) == x \in S IN SelectSeq(order, In)

\* The keys of a dict, and d[key]
DictKeys(d) == { d.v[i][1] : i \in 1..Len(d.v) }
DictGet(d, key) == d.v[CHOOSE i \in 1..Len(d.v) : d.v[i][1] = key][2]

RECURSIVE compare_values(_, _, _)
RECURSIVE compare_elements(_, _, _, _)
RECURSIVE compare_keys(_, _, _, _, _)

\* A comparison of lists that leaves a difference of the lengths unrecorded
compare_lists_noLengthRecord(path, expected, actual) ==
    LET m == Len(expected.v)
        n == Len(actual.v)
    IN  compare_elements(path, expected.v, actual.v, 1)
        \o [i \in 1..(IF m > n THEN m - n ELSE 0) |->
               Diff(child(path, IntSeg(n + i - 1)), MISSING, expected.v[n + i], PyNone)]
        \o [i \in 1..(IF n > m THEN n - m ELSE 0) |->
               Diff(child(path, IntSeg(m + i - 1)), EXTRA, PyNone, actual.v[m + i])]

\* compare._compare_lists
compare_lists(path, expected, actual) ==
    LET m == Len(expected.v)
        n == Len(actual.v)
    IN  (IF m # n THEN <<Diff(path, LENGTH_MISMATCH, PyInt(m), PyInt(n))>> ELSE << >>)
        \o compare_elements(path, expected.v, actual.v, 1)
        \o [i \in 1..(IF m > n THEN m - n ELSE 0) |->
               Diff(child(path, IntSeg(n + i - 1)), MISSING, expected.v[n + i], PyNone)]
        \o [i \in 1..(IF n > m THEN n - m ELSE 0) |->
               Diff(child(path, IntSeg(m + i - 1)), EXTRA, PyNone, actual.v[m + i])]

\* compare._compare_lists: for i in range(min(len(expected), len(actual))),
\* from the index i - 1 on
compare_elements(path, e, a, i) ==
    IF i > Len(e) \/ i > Len(a) THEN << >>
    ELSE compare_values(child(path, IntSeg(i - 1)), e[i], a[i])
             \o compare_elements(path, e, a, i + 1)

\* compare._compare_dicts
compare_dicts(path, expected, actual) ==
    compare_keys(path, expected, actual,
                 SortedIn(KeyOrder, DictKeys(expected) \cup DictKeys(actual)), 1)

\* compare._compare_dicts: for key in sorted(all_keys, ...), from the i-th on
compare_keys(path, expected, actual, keys, i) ==
    IF i > Len(keys) THEN << >>
    ELSE LET key == keys[i]
             key_path == IF key.k = "str" THEN child(path, StrSeg(key.v))
                         ELSE child(path, StrSeg("[" \o ToString(key.v) \o "]"))
         IN  (IF key \notin DictKeys(actual)
              THEN <<Diff(key_path, MISSING, DictGet(expected, key), PyNone)>>
              ELSE IF key \notin DictKeys(expected)
              THEN <<Diff(key_path, EXTRA, PyNone, DictGet(actual, key))>>
              ELSE compare_values(key_path, DictGet(expected, key), DictGet(actual, key)))
             \o compare_keys(path, expected, actual, keys, i + 1)

\* compare.compare_values
compare_values(path, expected, actual) ==
    IF expected = PyNone /\ actual = PyNone THEN << >>
    ELSE IF expected = PyNone \/ actual = PyNone
    THEN <<Diff(path, VALUE_CHANGED, expected, actual)>>
    ELSE IF expected.k # actual.k
    THEN <<Diff(path, TYPE_MISMATCH, PyType(expected), PyType(actual))>>
    ELSE IF expected.k = "Clear" THEN << >>
    ELSE IF expected.k = "WaifReference"
    THEN (IF expected.v # actual.v
          THEN <<Diff(path, VALUE_CHANGED, expected, actual)>> ELSE << >>)
    ELSE IF expected.k \in {"list", "tuple"} THEN compare_lists(path, expected, actual)
    ELSE IF expected.k = "dict" THEN compare_dicts(path, expected, actual)
    ELSE IF expected.k = "float"
    THEN (IF isclose(expected.v, actual.v) THEN << >>
          ELSE <<Diff(path, VALUE_CHANGED, expected, actual)>>)
    ELSE IF PyNe(expected, actual)
    THEN <<Diff(path, VALUE_CHANGED, expected, actual)>>
    ELSE << >>

\* {p.propertyName: p for p in props}: the names, and the property of a name,
\* which is the last one of that name
PropertyNames(props) == { props[i].propertyName : i \in 1..Len(props) }
ByName(props, name) ==
    props[CHOOSE i \in 1..Len(props) :
              /\ props[i].propertyName = name
              /\ \A j \in (i + 1)..Len(props) : props[j].propertyName # name]

\* compare.compare_properties: for name in sorted(all_names, key=str), from
\* the i-th on
RECURSIVE compare_names(_, _, _, _, _)
compare_names(path, expected, actual, names, i) ==
    IF i > Len(names) THEN << >>
    ELSE LET name == names[i]
             prop_path == child(child(path, StrSeg("properties")), StrSeg(name))
         IN  (IF name \notin PropertyNames(actual)
              THEN <<Diff(prop_path, MISSING, ByName(expected, name), PyNone)>>
              ELSE IF name \notin PropertyNames(expected)
              THEN <<Diff(prop_path, EXTRA, PyNone, ByName(actual, name))>>
              ELSE LET exp_prop == ByName(expected, name)
                       act_prop == ByName(actual, name)
                   IN  compare_values(child(prop_path, StrSeg("value")),
                                      exp_prop.value, act_prop.value)
                       \o (IF exp_prop.owner # act_prop.owner
                           THEN <<Diff(child(prop_path, StrSeg("owner")), VALUE_CHANGED,
                                       exp_prop.owner, act_prop.owner)>>
                           ELSE << >>)
                       \o (IF exp_prop.perms # act_prop.perms
                           THEN <<Diff(child(prop_path, StrSeg("perms")), VALUE_CHANGED,
                                       exp_prop.perms, act_prop.perms)>>
                           ELSE << >>))
             \o compare_names(path, expected, actual, names, i + 1)

\* A comparison of properties that looks at the names of expected only
compare_properties_expectedNames(path, expected, actual) ==
    compare_names(path, expected, actual,
                  SortedIn(NameOrder, PropertyNames(expected)), 1)

\* compare.compare_properties
compare_properties(path, expected, actual) ==
    compare_names(path, expected, actual,
                  SortedIn(NameOrder, PropertyNames(expected) \cup PropertyNames(actual)), 1)

\* One field of two records compared with !=
Changed(path, field, e, a) ==
    IF e # a THEN <<Diff(child(path, StrSeg(field)), VALUE_CHANGED, e, a)>> ELSE << >>

\* A comparison of two verbs that takes an empty program for no program
compare_verb_emptyIsAbsent(verb_path, exp_verb, act_verb) ==
    Changed(verb_path, "name", exp_verb.name, act_verb.name)
    \o Changed(verb_path, "owner", exp_verb.owner, act_verb.owner)
    \o Changed(verb_path, "perms", exp_verb.perms, act_verb.perms)
    \o Changed(verb_path, "preps", exp_verb.preps, act_verb.preps)
    \o compare_values(child(verb_path, StrSeg("code")),
                      StrList(exp_verb.code.text), StrList(act_verb.code.text))

\* compare.compare_verbs: the body of the loop over range(min(...)), for the
\* verbs at one index
compare_verb(verb_path, exp_verb, act_verb) ==
    Changed(verb_path, "name", exp_verb.name, act_verb.name)
    \o Changed(verb_path, "owner", exp_verb.owner, act_verb.owner)
    \o Changed(verb_path, "perms", exp_verb.perms, act_verb.perms)
    \o Changed(verb_path, "preps", exp_verb.preps, act_verb.preps)
    \o (IF ~exp_verb.code.some /\ ~act_verb.code.some THEN << >>
        ELSE IF ~exp_verb.code.some \/ ~act_verb.code.some
        THEN <<Diff(child(verb_path, StrSeg("code")), VALUE_CHANGED,
                    exp_verb.code, act_verb.code)>>
        ELSE compare_values(child(verb_path, StrSeg("code")),
                            StrList(exp_verb.code.text), StrList(act_verb.code.text)))

RECURSIVE compare_verb_pairs(_, _, _, _)
compare_verb_pairs(path, expected, actual, i) ==
    IF i > Len(expected) \/ i > Len(actual) THEN << >>
    ELSE compare_verb(child(child(path, StrSeg("verbs")), IntSeg(i - 1)),
                      expected[i], actual[i])
             \o compare_verb_pairs(path, expected, actual, i + 1)

\* compare.compare_verbs
compare_verbs(path, expected, actual) ==
    LET m == Len(expected)
        n == Len(actual)
        verbs == child(path, StrSeg("verbs"))
    IN  (IF m # n THEN <<Diff(verbs, LENGTH_MISMATCH, PyInt(m), PyInt(n))>> ELSE << >>)
        \o compare_verb_pairs(path, expected, actual, 1)
        \o [i \in 1..(IF m > n THEN m - n ELSE 0) |->
               Diff(child(verbs, IntSeg(n + i - 1)), MISSING, expected[n + i], PyNone)]
        \o [i \in 1..(IF n > m THEN n - m ELSE 0) |->
               Diff(child(verbs, IntSeg(m + i - 1)), EXTRA, PyNone, actual[m + i])]

\* One field of two records, a value each, compared with !=
ChangedValue(path, field, e, a) ==
    IF PyNe(e, a) THEN <<Diff(child(path, StrSeg(field)), VALUE_CHANGED, e, a)>> ELSE << >>

\* compare.compare_objects
compare_objects(path, expected, actual) ==
    Changed(path, "name", expected.name, actual.name)
    \o Changed(path, "flags", expected.flags, actual.flags)
    \o Changed(path, "owner", expected.owner, actual.owner)
    \o ChangedValue(path, "location", expected.location, actual.location)
    \o ChangedValue(path, "last_move", expected.last_move, actual.last_move)
    \o Changed(path, "propdefs_count", expected.propdefs_count, actual.propdefs_count)
    \o Changed(path, "anon", expected.anon, actual.anon)
    \o compare_values(child(path, StrSeg("parents")),
                      IntList(expected.parents), IntList(actual.parents))
    \o compare_values(child(path, StrSeg("children")),
                      IntList(expected.children), IntList(actual.children))
    \o compare_values(child(path, StrSeg("contents")),
                      IntList(expected.contents), IntList(actual.contents))
    \o compare_properties(path, expected.properties, actual.properties)
    \o compare_verbs(path, expected.verbs, actual.verbs)

\* compare.compare_waif
compare_waif(path, expected, actual) ==
    Changed(path, "waif_class", expected.waif_class, actual.waif_class)
    \o Changed(path, "owner", expected.owner, actual.owner)
    \o Changed(path, "propdefs_length", expected.propdefs_length, actual.propdefs_length)
    \o compare_values(child(path, StrSeg("props")),
                      PyList(expected.props), PyList(actual.props))

\* compare.compare_waifs: for idx in sorted(all_indices), from the i-th on
RECURSIVE compare_waif_indices(_, _, _, _, _)
compare_waif_indices(path, expected, actual, indices, i) ==
    IF i > Len(indices) THEN << >>
    ELSE LET idx == indices[i]
             waif_path == child(child(path, StrSeg("waifs")), IntSeg(idx))
         IN  (IF idx \notin DOMAIN actual
              THEN <<Diff(waif_path, MISSING, expected[idx], PyNone)>>
              ELSE IF idx \notin DOMAIN expected
              THEN <<Diff(waif_path, EXTRA, PyNone, actual[idx])>>
              ELSE compare_waif(waif_path, expected[idx], actual[idx]))
             \o compare_waif_indices(path, expected, actual, indices, i + 1)

\* compare.compare_waifs
compare_waifs(path, expected, actual) ==
    compare_waif_indices(path, expected, actual,
                         SortedInts(DOMAIN expected \cup DOMAIN actual), 1)

\* compare_databases: the comparison under way is the record of the diffs
\* appended so far, of whether it goes on (no _add_diff has returned False)
\* and of the exception raised, if any.  max_diffs is None or an int.
Comparing == [diffs |-> << >>, more |-> TRUE, exc |-> "none"]

\* compare_databases._add_diff
add_diff(acc, diff, max_diffs) ==
    IF ~acc.more THEN acc
    ELSE [acc EXCEPT !.diffs = Append(@, diff),
                     !.more = max_diffs = PyNone \/ Len(acc.diffs) + 1 < max_diffs.v]

\* compare_databases._add_diffs, from the n-th of new_diffs on
RECURSIVE add_diffs(_, _, _, _)
add_diffs(acc, new_diffs, n, max_diffs) ==
    IF ~acc.more \/ n > Len(new_diffs) THEN acc
    ELSE add_diffs(add_diff(acc, new_diffs[n], max_diffs), new_diffs, n + 1, max_diffs)

\* An attribute of the attrs class that has no default and was never
\* assigned: reading it raises AttributeError
Unset == [k |-> "unset", v |-> 0]

\* compare_databases: the comparison of version and of versionstring
compare_attribute(acc, field, e, a, ignore, max_diffs) ==
    IF ~acc.more \/ field \in ignore THEN acc
    ELSE IF e = Unset \/ a = Unset
    THEN [acc EXCEPT !.more = FALSE, !.exc = "AttributeError"]
    ELSE IF PyNe(e, a)
    THEN add_diff(acc, Diff(child(root, StrSeg(field)), VALUE_CHANGED, e, a), max_diffs)
    ELSE acc

\* compare_databases: the comparison of total_objects
compare_total_objects(acc, expected, actual, ignore, max_diffs) ==
    IF ~acc.more \/ "total_objects" \in ignore THEN acc
    ELSE IF expected.total_objects # actual.total_objects
    THEN add_diff(acc, Diff(child(root, StrSeg("total_objects")), VALUE_CHANGED,
                            expected.total_objects, actual.total_objects), max_diffs)
    ELSE acc

\* compare_databases: the comparison of players, of the sorted
\* recycled_objects and of pending_anon_ids, each a list of ints
compare_int_list(acc, field, e, a, ignore, max_diffs) ==
    IF ~acc.more \/ field \in ignore THEN acc
    ELSE add_diffs(acc, compare_values(child(root, StrSeg(field)), IntList(e), IntList(a)),
                   1, max_diffs)

\* compare_databases: for obj_id in sorted(all_obj_ids), from the i-th on
RECURSIVE compare_object_ids(_, _, _, _, _, _)
compare_object_ids(acc, expected, actual, ids, i, max_diffs) ==
    IF ~acc.more \/ i > Len(ids) THEN acc
    ELSE LET obj_id == ids[i]
             obj_path == ObjectPath(obj_id)
             next ==
                 IF obj_id \notin ObjectKeys(actual)
                 THEN add_diff(acc, Diff(obj_path, MISSING, ObjectAt(expected, obj_id),
                                         PyNone), max_diffs)
                 ELSE IF obj_id \notin ObjectKeys(expected)
                 THEN add_diff(acc, Diff(obj_path, EXTRA, PyNone,
                                         ObjectAt(actual, obj_id)), max_diffs)
                 ELSE add_diffs(acc, compare_objects(obj_path, ObjectAt(expected, obj_id),
                                                     ObjectAt(actual, obj_id)),
                                1, max_diffs)
         IN  compare_object_ids(next, expected, actual, ids, i + 1, max_diffs)

\* compare_databases: the comparison of objects
compare_all_objects(acc, expected, actual, ignore, max_diffs) ==
    IF ~acc.more \/ "objects" \in ignore THEN acc
    ELSE compare_object_ids(acc, expected, actual,
                            SortedInts(ObjectKeys(expected) \cup ObjectKeys(actual)),
                            1, max_diffs)

\* compare_databases: the comparison of waifs
compare_all_waifs(acc, expected, actual, ignore, max_diffs) ==
    IF ~acc.more \/ "waifs" \in ignore THEN acc
    ELSE add_diffs(acc, compare_waifs(root, expected.waifs, actual.waifs), 1, max_diffs)

\* compare.compare_databases: the CompareResult's diffs, or the exception
compare_databases(expected, actual, ignore, max_diffs) ==
    compare_all_waifs(
    compare_all_objects(
    compare_int_list(
    compare_int_list(
    compare_int_list(
    compare_total_objects(
    compare_attribute(
    compare_attribute(Comparing,
        "version", expected.version, actual.version, ignore, max_diffs),
        "versionstring", expected.versionstring, actual.versionstring, ignore, max_diffs),
        expected, actual, ignore, max_diffs),
        "players", expected.players, actual.players, ignore, max_diffs),
        "recycled_objects", SortedInts(expected.recycled_objects),
        SortedInts(actual.recycled_objects), ignore, max_diffs),
        "pending_anon_ids", expected.pending_anon_ids, actual.pending_anon_ids,
        ignore, max_diffs),
        expected, actual, ignore, max_diffs),
        expected, actual, ignore, max_diffs)

\* ------------------------------------------------------------ the session

\* The writer state of the session, and the session after a call that left st
Writer == [lines |-> lines, cur |-> cur, written_waifs |-> written_waifs,
           exc |-> "none", enc |-> enc]

Called(op, arg, st) ==
    /\ lines' = st.lines
    /\ cur' = st.cur
    /\ written_waifs' = st.written_waifs
    /\ raised' = st.exc
    /\ enc' = st.enc
    /\ calls' = Append(calls, [op |-> op, arg |-> arg, start |-> Len(lines) + 1])
    /\ UNCHANGED <<db, cmp, dumps>>

\* No comparison was called yet
NoComparison ==
    [op |-> "none", expected |-> PyNone, actual |-> PyNone, ignore |-> {},
     max_diffs |-> PyNone, diffs |-> << >>, exc |-> "none"]

\* The sessions in which dump(db, f) is called
DumpSessions == {1, 2}

\* dump(db, f) was not called: there is no Writer
NoWriter == [pc |-> -1, lines |-> << >>, cur |-> "", written_waifs |-> [i \in {} |-> 0],
             exc |-> "none", enc |-> << >>]

\* Writer(db=db, output_file=f): an empty file and an empty interning table
Fresh ==
    /\ dumps = [s \in DumpSessions |-> NoWriter]
    /\ lines = << >>
    /\ cur = ""
    /\ written_waifs = [i \in {} |-> 0]
    /\ raised = "none"
    /\ enc = << >>
    /\ calls = << >>
    /\ cmp = NoComparison

\* database.MooDatabase(): the defaults of the attrs class; versionstring and
\* version have none
MooDatabase ==
    [versionstring |-> Unset, version |-> Unset, total_objects |-> 0, total_verbs |-> 0, total_players |-> 0,
     clocks |-> << >>, objects |-> << >>, queuedTasks |-> << >>,
     suspendedTasks |-> << >>, interruptedTasks |-> << >>,
     waifs |-> [i \in {} |-> 0], players |-> << >>, recycled_objects |-> {},
     pending_anon_ids |-> << >>, connections |-> << >>,
     connections_with_listeners |-> " with listeners"]

\* The waifs of the value sessions.  0 is the waif of the tests given with
\* (slot, value) pairs; 1 holds a reference to waif 0 and, inside a list, one
\* to itself; 5 holds a reference to an index that is no key of db.waifs;
\* 4, 6 and 8 hold bare property values, as the tests build them; 3 has no
\* properties.  7 and 9 are no keys.  10 holds, inside a map, a reference to
\* 11, which holds one to 10.
SessionWaifs ==
    (0 :> Waif(1641, 2, <<Tup(0, PyStr("west"))>>, 1))
    @@ (1 :> Waif(100, 1, <<Tup(0, WaifReference(0)),
                            Tup(2, PyList(<<PyInt(1), WaifReference(1)>>))>>, 3))
    @@ (3 :> Waif(100, 42, << >>, 0))
    @@ (4 :> Waif(1641, 2, <<PyStr("west")>>, 0))
    @@ (5 :> Waif(100, 1, <<Tup(1, WaifReference(7))>>, 2))
    @@ (6 :> Waif(100, 1, <<PyInt(42)>>, 0))
    @@ (8 :> Waif(100, 1, <<PyList(<<PyInt(1), PyInt(2), PyInt(3)>>)>>, 0))
    @@ (10 :> Waif(100, 1, <<Tup(0, PyDict(<< <<PyStr("k"), WaifReference(11)>> >>))>>, 1))
    @@ (11 :> Waif(100, 2, <<Tup(0, WaifReference(10)), Tup(1, PyInt(7))>>, 2))

\* The values a session writes through writeValue
\* The float 0.1: 3602879701896397 / 2^55
Tenth == PyFloatBig(<<7, 9, 3, 6, 9, 8, 1, 0, 7, 9, 7, 8, 2, 0, 6, 3>>, 55)

SessionValues ==
    { WaifReference(i) : i \in {0, 1, 3, 4, 5, 6, 8, 9, 10} }
    \cup { PyInt(5), ObjNum(5), PyStr("west"), PyBool(TRUE), PyNone, CLEARV,
           MooError(2), Anon(5), MooCatch(1), MooFinally(1), PyFloat(3, 1),
           Tenth, PyNaN,
           PySupportsInt(5), PyOther,
           PyList(<<WaifReference(3), PyInt(7), WaifReference(3)>>),
           PyDict(<< <<PyStr("k"), WaifReference(1)>> >>) }

\* writer.writeValue(v), called on the Writer of the session
CallWriteValue(v) ==
    /\ Len(calls) < MaxCalls
    /\ Called("writeValue", v, writeValue(Writer, v))

Init == Fresh /\ db = [MooDatabase EXCEPT !.waifs = SessionWaifs]

Next == \E v \in SessionValues : CallWriteValue(v)

Spec == Init /\ [][Next]_vars

\* ---------------------------------------------------- database sessions

\* The verbs of the databases: without program, with an empty program, with
\* a program.  Two verbs of one object may be equal in every field.
VerbNoProgram(o) == Verb("look", 2, 173, -1, o, NoCode)
VerbEmptyProgram(o) == Verb("take", 2, 173, 0, o, Code(<< >>))
VerbProgram(o) == Verb("get give", 2, 45, -1, o, Code(<<"return 1;", "return 2;">>))

\* The shapes of an object of the databases
Shape(n, id) ==
    CASE n = "System" -> MooObject(id, "System", 16, 0, ObjNum(-1), << >>)
      [] n = "Root" -> [MooObject(id, "Root", 144, 0, ObjNum(-1), <<0>>) EXCEPT
                      !.children = <<1>>,
                      !.contents = <<1, 0>>,
                      !.verbs = <<VerbProgram(id), VerbNoProgram(id),
                                  VerbProgram(id), VerbEmptyProgram(id)>>,
                      !.properties = <<Property("counter", PyInt(5), 1, 3)>>,
                      !.propdefs_count = 1]
      [] n = "Thing" -> [MooObject(id, "Thing", 0, 2, PyInt(0), <<0, 1>>) EXCEPT
                      !.last_move = ObjNum(0),
                      !.verbs = <<VerbNoProgram(id)>>,
                      !.properties = <<Property("w", WaifReference(0), 2, 5),
                                       Property("l", PyList(<<WaifReference(1),
                                                             PyStr("west")>>), 2, 1)>>,
                      !.propdefs_count = 1]
      [] n = "Anonymous" -> [MooObject(id, "", 256, 1, ObjNum(-1), <<1>>) EXCEPT
                      !.anon = TRUE,
                      !.verbs = <<VerbEmptyProgram(id)>>]

Shapes == {"System", "Root", "Thing", "Anonymous"}

\* What a database holds for one id of range(total_objects): an object of
\* one of the shapes, a recycled id, an id both recycled and kept in
\* db.objects, or nothing at all
SlotChoices == Shapes \cup {"recycled", "both", "missing"}

\* The objects with id >= total_objects, in the order they were inserted
AnonymousTail(some) ==
    IF some
    THEN << [Shape("Anonymous", 1002) EXCEPT !.properties =
                 <<Property("test", PyStr("hello"), 1, 1)>>, !.propdefs_count = 1],
            [Shape("Anonymous", 1001) EXCEPT !.verbs = <<VerbProgram(1001)>>] >>
    ELSE << >>

RECURSIVE DenseObjects(_, _)
DenseObjects(slots, n) ==
    IF n > Len(slots) THEN << >>
    ELSE (IF slots[n] \in Shapes THEN <<Shape(slots[n], n - 1)>>
          ELSE IF slots[n] = "both" THEN <<Shape("Root", n - 1)>>
          ELSE << >>) \o DenseObjects(slots, n + 1)

\* The waifs of the databases: (slot, value) pairs, every reference resolving
DatabaseWaifs ==
    (0 :> Waif(1641, 2, <<Tup(0, PyStr("west"))>>, 1))
    @@ (1 :> Waif(100, 1, <<Tup(0, WaifReference(0)), Tup(2, WaifReference(1))>>, 3))

\* database.Activation, database.VM and the three task records
SomeActivation ==
    [this |-> PyInt(1), threaded |-> PyNone, player |-> PyInt(2),
     programmer |-> PyInt(2), vloc |-> PyInt(1), debug |-> PyInt(1),
     verb |-> "look", verbname |-> "look", code |-> <<"suspend(5);">>,
     stack |-> <<PyInt(0), WaifReference(0)>>,
     unused1 |-> 0, unused2 |-> 0, unused3 |-> 0, unused4 |-> 0,
     temp_value |-> PyInt(0), temp_this |-> ObjNum(1), temp_vloc |-> ObjNum(1),
     rtEnv |-> << <<"player", ObjNum(2)>>, <<"args", PyList(<< >>)>>,
                  <<"dobj", PyNone>> >>,
     temp_end |-> PyInt(0), pc |-> 3, bi_func |-> 1, error |-> 0,
     bi_func_name |-> "suspend"]

SomeVM ==
    [locals |-> PyDict(<< <<PyStr("k"), PyInt(1)>> >>), stack |-> <<SomeActivation>>,
     top |-> 0, vector |-> -1, funcId |-> 0, maxStackframes |-> 50]

SomeQueuedTask ==
    [firstLineno |-> 1, id |-> 77, st |-> 1000, unused |-> 0, value |-> PyNone,
     activation |-> SomeActivation,
     rtEnv |-> << <<"caller", ObjNum(0)>>, <<"n", PyInt(3)>> >>,
     code |-> <<"return;">>]

SomeSuspendedTask(value) ==
    [firstLineno |-> 1, id |-> 78, startTime |-> 1000, value |-> value, vm |-> SomeVM]

SomeInterruptedTask == [id |-> 79, status |-> "interrupted", vm |-> SomeVM]

\* The databases of the sessions that write sections
Database(slots, tail, tasks) ==
    [MooDatabase EXCEPT
        !.total_objects = Len(slots),
        !.objects = DenseObjects(slots, 1) \o AnonymousTail(tail),
        !.recycled_objects = { n - 1 : n \in { j \in 1..Len(slots) :
                                                slots[j] \in {"recycled", "both"} } },
        !.waifs = DatabaseWaifs,
        !.players = IF tasks THEN <<2, 3>> ELSE << >>,
        !.pending_anon_ids = IF tail THEN <<1001>> ELSE << >>,
        !.clocks = IF tasks THEN <<"0 0 0">> ELSE << >>,
        !.queuedTasks = IF tasks THEN <<SomeQueuedTask>> ELSE << >>,
        !.suspendedTasks =
            IF tasks THEN <<SomeSuspendedTask(PyNone), SomeSuspendedTask(PyInt(5))>>
            ELSE << >>,
        !.interruptedTasks = IF tasks THEN <<SomeInterruptedTask>> ELSE << >>,
        !.connections = IF tasks THEN <<"2 telnet", "3 telnet">> ELSE << >>,
        !.connections_with_listeners = IF tail THEN "" ELSE " with listeners"]

Databases ==
    { Database(slots, tail, tasks) :
        slots \in UNION { [1..t -> SlotChoices] : t \in 0..MaxObjects },
        tail \in BOOLEAN, tasks \in BOOLEAN }

\* writer.writeObjects()
CallWriteObjects ==
    /\ Len(calls) < MaxDbCalls
    /\ Called("writeObjects", PyNone, writeObjects(Writer))

\* writer.writeObject(obj), obj an object of the database
CallWriteObject(obj) ==
    /\ Len(calls) < MaxDbCalls
    /\ Called("writeObject", PyInt(obj.id), writeObject(Writer, obj))

\* writer.writeVerbs()
CallWriteVerbs ==
    /\ Len(calls) < MaxDbCalls
    /\ Called("writeVerbs", PyNone, writeVerbs(Writer))

\* writer.writeDatabase()
CallWriteDatabase ==
    /\ Len(calls) < MaxDbCalls
    /\ Called("writeDatabase", PyNone, writeDatabase(Writer))

InitDb == Fresh /\ db \in Databases

NextDb ==
    \/ CallWriteObjects
    \/ \E n \in 1..Len(db.objects) : CallWriteObject(db.objects[n])
    \/ CallWriteVerbs
    \/ CallWriteDatabase

SpecDb == InitDb /\ [][NextDb]_vars

\* -------------------------------------------------- comparison sessions

\* The largest max_diffs a comparison is called with.
MaxLimit == 3

\* The values compared through compare_values
CmpLists ==
    { PyList(<< >>), PyList(<<PyInt(5)>>), PyList(<<ObjNum(5)>>),
      PyList(<<PyInt(5), PyStr("west")>>), PyList(<<PyInt(6), PyStr("west")>>),
      PyList(<<PyInt(5), PyStr("west"), PyList(<<PyInt(5)>>)>>),
      PyList(<<PyInt(5), PyStr("west"), PyList(<< >>)>>),
      PyList(<<PyInt(5), PyStr("east"), PyList(<<PyInt(5)>>), PyInt(7)>>) }

CmpValues ==
    CmpLists
    \cup { PyInt(5), ObjNum(5), PyInt(6), PyStr("west"), PyBool(TRUE), PyNone, CLEARV,
           WaifReference(0), WaifReference(1), Tenth, PyFloat(3, 1), PyNaN,
           Tup(0, PyInt(5)),
           PyDict(<< <<PyStr("k"), PyInt(1)>>, <<PyInt(2), PyStr("x")>> >>),
           PyDict(<< <<PyStr("k"), ObjNum(1)>> >>),
           PyDict(<< <<PyInt(2), PyStr("x")>>, <<PyStr("a"), PyInt(1)>> >>) }

\* The property lists compared through compare_properties: the last two are
\* one property, and that property after another one of its name
CmpPropertyLists ==
    LET a == Property("a", PyInt(5), 1, 3)
        aObj == Property("a", ObjNum(5), 1, 3)
        aOther == Property("a", PyInt(5), 2, 1)
        b == Property("b", PyStr("x"), 1, 1)
        l == Property("l", PyList(<<PyInt(1)>>), 1, 1)
    IN  { << >>, <<a>>, <<a, b>>, <<b, a>>, <<aObj, b>>, <<aOther, b, l>>,
          <<b, l, a>>, <<aObj>>, <<a, aObj>> }

\* The verb lists compared through compare_verbs
CmpVerbLists ==
    LET look == VerbNoProgram(1)
        take == VerbEmptyProgram(1)
        get == VerbProgram(1)
        getOther == [get EXCEPT !.code = Code(<<"return 1;">>), !.owner = 3]
        lookOther == [look EXCEPT !.perms = 45, !.preps = 0]
    IN  { << >>, <<look>>, <<take>>, <<get>>, <<look, get>>, <<get, look>>,
          <<getOther, lookOther>>, <<look, look, get>> }

\* The databases compared.  Object #1 holds an int, a list, a map with keys
\* of two kinds and a float in its properties.
CmpThing(a, l, w, b, location, last_move) ==
    [MooObject(1, "Thing", 0, 2, location, <<0>>) EXCEPT
        !.last_move = last_move,
        !.verbs = <<VerbNoProgram(1), VerbProgram(1), VerbNoProgram(1)>>,
        !.properties = <<Property("a", a, 2, 5),
                         Property("l", PyList(<<l, PyStr("west")>>), 2, 1),
                         Property("w", PyDict(<< <<PyStr("k"), w>>,
                                                 <<PyInt(2), PyStr("x")>> >>), 2, 1),
                         Property("b", b, 2, 1)>>,
        !.propdefs_count = 4]

CmpBase ==
    [MooDatabase EXCEPT
        !.version = PyInt(17),
        !.versionstring = PyStr("** LambdaMOO Database, Format Version 17 **"),
        !.total_objects = 2,
        !.objects = <<Shape("System", 0),
                      CmpThing(PyInt(5), PyInt(1), PyInt(1), Tenth, PyInt(0), PyInt(-1))>>,
        !.waifs = DatabaseWaifs,
        !.players = <<2, 3>>,
        !.recycled_objects = {7, 4},
        !.pending_anon_ids = <<1001>>]

CmpVariants ==
    {"base", "wrapped values", "wrapped location", "nan", "unset", "permuted",
     "longer", "code", "tasks", "other"}

CmpDatabase(variant) ==
    CASE variant = "base" -> CmpBase
      [] variant = "wrapped values" ->
            [CmpBase EXCEPT !.objects[2] =
                CmpThing(ObjNum(5), ObjNum(1), ObjNum(1), Tenth, PyInt(0), PyInt(-1))]
      [] variant = "wrapped location" ->
            [CmpBase EXCEPT !.objects[2] =
                CmpThing(PyInt(5), PyInt(1), PyInt(1), Tenth, ObjNum(0), ObjNum(-1))]
      [] variant = "nan" ->
            [CmpBase EXCEPT !.objects[2] =
                CmpThing(PyInt(5), PyInt(1), PyInt(1), PyNaN, PyInt(0), PyInt(-1))]
      [] variant = "unset" ->
            [CmpBase EXCEPT !.version = Unset, !.versionstring = Unset]
      [] variant = "permuted" ->
            [CmpBase EXCEPT
                !.objects = <<CmpBase.objects[2], CmpBase.objects[1]>>,
                !.objects[1].properties =
                    <<CmpBase.objects[2].properties[3], CmpBase.objects[2].properties[1],
                      CmpBase.objects[2].properties[4], CmpBase.objects[2].properties[2]>>]
      [] variant = "longer" ->
            [CmpBase EXCEPT
                !.total_objects = 3,
                !.objects = Append(@, Shape("Root", 2)),
                !.objects[2].properties = Append(@, Property("counter", PyInt(0), 2, 1)),
                !.objects[2].verbs = Append(@, VerbEmptyProgram(1)),
                !.objects[2].contents = <<2>>,
                !.players = <<2, 3, 4>>,
                !.waifs = @ @@ (2 :> Waif(100, 1, << >>, 0))]
      [] variant = "code" ->
            [CmpBase EXCEPT
                !.objects[2].verbs = <<VerbEmptyProgram(1),
                                       [VerbProgram(1) EXCEPT !.code = Code(<<"return 1;">>)],
                                       VerbNoProgram(1)>>]
      [] variant = "tasks" ->
            [CmpBase EXCEPT
                !.clocks = <<"0 0 0">>,
                !.queuedTasks = <<SomeQueuedTask>>,
                !.suspendedTasks = <<SomeSuspendedTask(PyInt(5))>>,
                !.interruptedTasks = <<SomeInterruptedTask>>,
                !.connections = <<"2 telnet", "3 telnet">>]
      [] variant = "other" ->
            [CmpBase EXCEPT
                !.version = PyInt(4),
                !.versionstring = PyStr("** LambdaMOO Database, Format Version 4 **"),
                !.total_objects = 1,
                !.objects = <<Shape("System", 0)>>,
                !.players = << >>,
                !.recycled_objects = {4},
                !.pending_anon_ids = << >>,
                !.waifs = (0 :> Waif(1641, 3, <<Tup(0, PyStr("east"))>>, 1))]

CmpDatabases == { CmpDatabase(variant) : variant \in CmpVariants }

\* max_diffs=None or an int from 0
Limits == {PyNone} \cup { PyInt(n) : n \in 0..MaxLimit }

\* ignore_fields: nothing, or the two attributes without default
Ignores == { {}, {"version", "versionstring"} }

\* The session after its comparison returned diffs or raised exc.  A
\* comparison depends on nothing but its arguments: a session makes one.
Compared(op, expected, actual, ignore, max_diffs, diffs, exc) ==
    /\ cmp.op = "none"
    /\ cmp' = [op |-> op, expected |-> expected, actual |-> actual, ignore |-> ignore,
               max_diffs |-> max_diffs, diffs |-> diffs, exc |-> exc]
    /\ UNCHANGED <<db, lines, cur, written_waifs, raised, enc, calls, dumps>>

\* compare_databases(expected, actual, ignore_fields=ignore, max_diffs=n)
CallCompareDatabases(expected, actual, ignore, n) ==
    LET r == compare_databases(expected, actual, ignore, n)
    IN  Compared("compare_databases", expected, actual, ignore, n, r.diffs, r.exc)

\* compare_values(DiffPath.root(), expected, actual)
CallCompareValues(expected, actual) ==
    Compared("compare_values", expected, actual, {}, PyNone,
             compare_values(root, expected, actual), "none")

\* compare_properties(DiffPath.object(1), expected, actual)
CallCompareProperties(expected, actual) ==
    Compared("compare_properties", expected, actual, {}, PyNone,
             compare_properties(ObjectPath(1), expected, actual), "none")

\* compare_verbs(DiffPath.object(1), expected, actual)
CallCompareVerbs(expected, actual) ==
    Compared("compare_verbs", expected, actual, {}, PyNone,
             compare_verbs(ObjectPath(1), expected, actual), "none")

InitCmp == Fresh /\ db = MooDatabase

NextCmp ==
    \/ \E expected \in CmpDatabases, actual \in CmpDatabases,
          ignore \in Ignores, n \in Limits :
           CallCompareDatabases(expected, actual, ignore, n)
    \/ \E expected \in CmpValues, actual \in CmpValues :
           CallCompareValues(expected, actual)
    \/ \E expected \in CmpPropertyLists, actual \in CmpPropertyLists :
           CallCompareProperties(expected, actual)
    \/ \E expected \in CmpVerbLists, actual \in CmpVerbLists :
           CallCompareVerbs(expected, actual)

SpecCmp == InitCmp /\ [][NextCmp]_vars

\* --------------------------------------------------------- dump sessions

\* Writer.writeDatabase: the writers it calls, in its order
Sections ==
    <<"writeString", "writePlayers", "writePending", "writeClocks", "writeTaskQueue",
      "writeSuspendedTasks", "writeInterruptedTasks", "writeConnections",
      "writeObjects", "writeVerbs">>

\* Writer.writeDatabase: its n-th call
Section(n, st) ==
    CASE Sections[n] = "writeString" -> writeString(st, template_version(17))
      [] Sections[n] = "writePlayers" -> writePlayers(st)
      [] Sections[n] = "writePending" -> writePending(st)
      [] Sections[n] = "writeClocks" -> writeClocks(st)
      [] Sections[n] = "writeTaskQueue" -> writeTaskQueue(st)
      [] Sections[n] = "writeSuspendedTasks" -> writeSuspendedTasks(st)
      [] Sections[n] = "writeInterruptedTasks" -> writeInterruptedTasks(st)
      [] Sections[n] = "writeConnections" -> writeConnections(st)
      [] Sections[n] = "writeObjects" -> writeObjects(st)
      [] Sections[n] = "writeVerbs" -> writeVerbs(st)

\* One table for every Writer, as a dict that is an attribute of the class:
\* the table that holds the most, which is the one written last.
TableOf_oneForAll(d, s) ==
    d[CHOOSE t \in DOMAIN d :
          \A u \in DOMAIN d : Cardinality(DOMAIN d[u].written_waifs)
                                  <= Cardinality(DOMAIN d[t].written_waifs)].written_waifs

\* self._written_waifs of the Writer of session s: attrs.field(factory=dict)
\* gives each Writer a dict of its own
TableOf(d, s) == d[s].written_waifs

\* The databases that are dumped: waif references in the tasks and in the
\* properties, a recycled id, anonymous objects, an id that is missing
DumpDatabases ==
    { Database(<<"Thing", "Root">>, TRUE, TRUE),
      Database(<<"Thing">>, FALSE, FALSE),
      Database(<<"recycled", "Thing">>, TRUE, TRUE),
      Database(<<"Thing", "missing">>, FALSE, TRUE) }

\* dump(db, f) in session s: writer = Writer(db=db, output_file=f)
CallDump(s) ==
    /\ dumps[s].pc = -1
    /\ dumps' = [dumps EXCEPT ![s] = [NoWriter EXCEPT !.pc = 0]]
    /\ UNCHANGED <<db, lines, cur, written_waifs, raised, enc, calls, cmp>>

\* dump(db, f) in session s: the next call of writer.writeDatabase()
DumpStep(s) ==
    /\ dumps[s].pc >= 0
    /\ dumps[s].pc < Len(Sections)
    /\ dumps[s].exc = "none"
    /\ dumps' = [dumps EXCEPT ![s] =
           [Section(dumps[s].pc + 1,
                    [dumps[s] EXCEPT !.written_waifs = TableOf(dumps, s)])
            EXCEPT !.pc = dumps[s].pc + 1]]
    /\ UNCHANGED <<db, lines, cur, written_waifs, raised, enc, calls, cmp>>

InitDump == Fresh /\ db \in DumpDatabases

NextDump == \E s \in DumpSessions : CallDump(s) \/ DumpStep(s)

SpecDump == InitDump /\ [][NextDump]_vars

\* --------------------------------------------------------- part sessions
\* Sessions that call the writers of the parts of a record: a tagged value, a
\* raw value, a suspended task, a runtime environment, the properties of an
\* object.

\* The number of calls made in one such session.
MaxPartCalls == 2

\* The values written tagged and raw
PartValues ==
    { PyInt(5), ObjNum(5), PyStr("west"), PyBool(TRUE), PyNone, CLEARV,
      MooError(2), Anon(5), MooCatch(1), MooFinally(1), PyFloat(3, 1),
      PySupportsInt(5), PyOther,
      WaifReference(0), WaifReference(9),
      PyList(<<PyInt(7), PyList(<<PyStr("x"), ObjNum(1)>>)>>),
      PyList(<<WaifReference(3), PyInt(7), WaifReference(3)>>),
      PyDict(<< <<PyStr("k"), PyInt(1)>>, <<PyInt(2), PyList(<< >>)>> >>),
      PyDict(<< <<PyStr("k"), PyList(<<WaifReference(1)>>)>> >>) }

\* The values of a suspended task and of a variable
TaskValues ==
    { PyInt(5), ObjNum(5), PyStr("west"), PyBool(TRUE), PyNone, CLEARV,
      MooError(2), Anon(5), MooCatch(1), MooFinally(1), PyFloat(3, 1),
      WaifReference(0), PyList(<<PyInt(7)>>), PyDict(<< <<PyStr("k"), PyInt(1)>> >>) }

\* A suspended task whose VM has no activation
IdleTask(value) ==
    [firstLineno |-> 1, id |-> 78, startTime |-> 1000, value |-> value,
     vm |-> [SomeVM EXCEPT !.stack = << >>]]

\* Objects with 0 to 2 properties and a propdefs_count of 0 to 3
PartObjects ==
    LET w == Property("w", PyDict(<< <<PyStr("k"), ObjNum(1)>> >>), 2, 5)
        l == Property("l", PyList(<<PyInt(1), PyStr("west")>>), 2, 1)
        o(props, n) == [MooObject(1, "Thing", 0, 2, ObjNum(-1), <<0>>) EXCEPT
                           !.properties = props, !.propdefs_count = n]
    IN  { o(<< >>, 0), o(<< >>, 1), o(<<l>>, 0), o(<<l>>, 1), o(<<l>>, 3),
          o(<<w, l>>, 1), o(<<w, l>>, 2) }

\* writer.writeValue(v), in a session of parts
CallWriteTaggedValue(v) ==
    /\ Len(calls) < MaxPartCalls
    /\ Called("writeValue", v, writeValue(Writer, v))

\* writer.writeRawValue(v)
CallWriteRawValue(v) ==
    /\ Len(calls) < MaxPartCalls
    /\ Called("writeRawValue", v, writeRawValue(Writer, v))

\* writer.writeSuspendedTask(task), the value of task being v
CallWriteSuspendedTask(v) ==
    /\ Len(calls) < MaxPartCalls
    /\ Called("writeSuspendedTask", v, writeSuspendedTask(Writer, IdleTask(v)))

\* writer.writeRtEnv({"player": ObjNum(2), "x": v})
CallWriteRtEnv(v) ==
    /\ Len(calls) < MaxPartCalls
    /\ Called("writeRtEnv", v,
              writeRtEnv(Writer, << <<"player", ObjNum(2)>>, <<"x", v>> >>))

\* writer.write_properties(obj)
CallWriteProperties(obj) ==
    /\ Len(calls) < MaxPartCalls
    /\ Called("write_properties", obj, write_properties(Writer, obj))

InitParts == Fresh /\ db = [MooDatabase EXCEPT !.waifs = SessionWaifs]

NextParts ==
    \/ \E v \in PartValues : CallWriteTaggedValue(v)
    \/ \E v \in PartValues : CallWriteRawValue(v)
    \/ \E v \in TaskValues : CallWriteSuspendedTask(v)
    \/ \E v \in TaskValues : CallWriteRtEnv(v)
    \/ \E obj \in PartObjects : CallWriteProperties(obj)

SpecParts == InitParts /\ [][NextParts]_vars

\* ------------------------------------------------- waif interning: claims

\* The positions at which writeWaif was entered for original index i, in order
RECURSIVE EncountersOf(_, _)
EncountersOf(i, e) ==
    IF e = << >> THEN << >>
    ELSE IF Head(e)[1] = i THEN <<Head(e)[2]>> \o EncountersOf(i, Tail(e))
    ELSE EncountersOf(i, Tail(e))

\* The original indices writeWaif was entered for, each once, in first-seen order
RECURSIVE FirstSeen(_, _)
FirstSeen(e, seen) ==
    IF e = << >> THEN << >>
    ELSE IF Head(e)[1] \in seen THEN FirstSeen(Tail(e), seen)
    ELSE <<Head(e)[1]>> \o FirstSeen(Tail(e), seen \cup {Head(e)[1]})

\* The positions of the output lines equal to text
LinesEqual(text) == { p \in 1..Len(lines) : lines[p] = text }

LastCall == calls[Len(calls)]

\* C1: in one session every original index that is a key of db.waifs and was
\* written has exactly one definition record in the output, at its first
\* encounter, and every later encounter of it wrote a reference record.
C1_OneDefinitionThenReferences ==
    \A i \in DOMAIN db.waifs :
        LET at == EncountersOf(i, enc)
        IN  at # << >> =>
              /\ i \in DOMAIN written_waifs
              /\ LinesEqual(DefinitionHeader(written_waifs[i])) = {at[1]}
              /\ LinesEqual(ReferenceHeader(written_waifs[i]))
                    = { at[n] : n \in 2..Len(at) }
              /\ \A n \in 2..Len(at) : at[1] < at[n]

\* The same waif reference written twice, both calls returning: a definition
\* and then a reference.
C1_Witness ==
    /\ Len(calls) = 2
    /\ calls[1].arg = WaifReference(0)
    /\ calls[2].arg = WaifReference(0)
    /\ raised = "none"
    /\ lines = <<"13", "c 0", "1641", "2", "1", "0", "2", "west", "-1", ".",
                 "13", "r 0", ".">>

\* C2: the k-th distinct original index met gets write index k, the table is
\* injective onto 0..n-1, definition headers appear in increasing write-index
\* order, and every reference record comes after the definition header of its
\* write index.
C2_SequentialIndices ==
    LET order == FirstSeen(enc, {})
        n == Len(order)
    IN  /\ DOMAIN written_waifs = { order[j] : j \in 1..n }
        /\ \A j \in 1..n : written_waifs[order[j]] = j - 1
        /\ \A a, b \in 0..(n - 1) :
              \A p \in LinesEqual(DefinitionHeader(a)),
                 q \in LinesEqual(DefinitionHeader(b)) : p < q => a < b
        /\ \A a \in 0..(n - 1) :
              \A q \in LinesEqual(ReferenceHeader(a)) :
                 \E p \in LinesEqual(DefinitionHeader(a)) : p < q

\* C3: the first write of a waif writes the header line "d <write index>", a
\* later write of it the header line "r <write index>".
C3_HeaderLetterD ==
    \A i \in DOMAIN db.waifs :
        LET at == EncountersOf(i, enc)
        IN  at # << >> =>
              /\ lines[at[1]] = "d " \o ToString(written_waifs[i])
              /\ \A n \in 2..Len(at) :
                    lines[at[n]] = "r " \o ToString(written_waifs[i])

\* An element of waif.props that is a bare value, not a (slot, value) pair
IsBare(x) == x.k # "tuple"

\* The suffix of the output written by the last call
LastOutput == SubSeq(lines, LastCall.start, Len(lines))

\* C4: writeValue of a reference to a waif of db.waifs whose props are bare
\* values returns without raising, having written the tag 13 and a definition
\* with the class, the owner and the end marker.
C4_BarePropsWritten ==
    (/\ calls # << >>
     /\ LastCall.op = "writeValue"
     /\ LastCall.arg.k = "WaifReference"
     /\ LastCall.arg.v \in DOMAIN db.waifs
     /\ \E n \in DOMAIN db.waifs[LastCall.arg.v].props :
            IsBare(db.waifs[LastCall.arg.v].props[n])
     /\ Len(EncountersOf(LastCall.arg.v, enc)) = 1)
    => /\ raised = "none"
       /\ Len(LastOutput) >= 5
       /\ LastOutput[1] = ToString(WAIF)
       /\ LastOutput[3] = ToString(db.waifs[LastCall.arg.v].waif_class)
       /\ LastOutput[4] = ToString(db.waifs[LastCall.arg.v].owner)
       /\ LastOutput[Len(LastOutput)] = "."

\* --------------------------------------------------- verb programs: claims

\* The p-th line of the output of the last call, and the number of its lines
Line(p) == lines[LastCall.start + p - 1]

OutLen == Len(lines) - LastCall.start + 1

\* The places <<n, i>> of the verbs of the database, in the order of
\* all_verbs(): the i-th verb of the n-th object of db.objects
RECURSIVE VerbPlacesFrom(_, _)
VerbPlacesFrom(d, n) ==
    IF n > Len(d.objects) THEN << >>
    ELSE [i \in 1..Len(d.objects[n].verbs) |-> <<n, i>>] \o VerbPlacesFrom(d, n + 1)

VerbAt(pl) == db.objects[pl[1]].verbs[pl[2]]

CodePresent(pl) == VerbAt(pl).code.some

\* The places of the verbs whose code is present
CodePlaces == SelectSeq(VerbPlacesFrom(db, 1), CodePresent)

\* Where the k-th entry of the verb-program table starts, the count line
\* being line 1 and an entry being a locator, the code lines and "."
RECURSIVE EntryStart(_)
EntryStart(k) ==
    IF k = 1 THEN 2
    ELSE EntryStart(k - 1) + Len(VerbAt(CodePlaces[k - 1]).code.text) + 2

VerbTableLen == EntryStart(Len(CodePlaces) + 1) - 1

\* The locators of the verb positions of object o
LocatorsOf(o) == { VerbLocator(o, i) : i \in 0..(Len(ObjectAt(db, o).verbs) - 1) }

AllLocators == UNION { LocatorsOf(o) : o \in ObjectKeys(db) }

\* C5: the count line of the verb-program table is the number of verbs whose
\* code is present; the table holds one entry for each of them and none for
\* a verb without code, an entry being a locator line, the code lines and
\* the "." line (so the locator immediately followed by "." when the code is
\* empty); the count line equals the number of locator lines after it.
C5_VerbTableCount ==
    (calls # << >> /\ LastCall.op = "writeVerbs" /\ raised = "none") =>
        /\ OutLen = VerbTableLen
        /\ Line(1) = ToString(Len(CodePlaces))
        /\ \A k \in 1..Len(CodePlaces) :
              LET v == VerbAt(CodePlaces[k])
                  p == EntryStart(k)
              IN  /\ Line(p) \in LocatorsOf(v.object)
                  /\ \A i \in 1..Len(v.code.text) : Line(p + i) = v.code.text[i]
                  /\ Line(p + Len(v.code.text) + 1) = "."
        /\ Cardinality({ p \in 2..OutLen : Line(p) \in AllLocators })
              = Len(CodePlaces)

\* writeVerbs on a database whose one object holds a verb without code, a
\* verb with empty code and two verbs with code.
C5_Witness ==
    /\ calls # << >>
    /\ LastCall.op = "writeVerbs"
    /\ db = Database(<<"Root">>, FALSE, FALSE)
    /\ raised = "none"
    /\ lines = <<"3", "#0:0", "return 1;", "return 2;", ".",
                 "#0:0", "return 1;", "return 2;", ".", "#0:3", ".">>

\* C6: the entry of every verb with code starts with the locator of the
\* verb's own position in the verb list of its object, so that two positions
\* of one object never get the same locator.
C6_LocatorIsOwnPosition ==
    (calls # << >> /\ LastCall.op = "writeVerbs" /\ raised = "none") =>
        /\ OutLen = VerbTableLen
        /\ \A k \in 1..Len(CodePlaces) :
              Line(EntryStart(k))
                  = VerbLocator(VerbAt(CodePlaces[k]).object, CodePlaces[k][2] - 1)
        /\ \A j, k \in 1..Len(CodePlaces) :
              j # k => Line(EntryStart(j)) # Line(EntryStart(k))

\* ------------------------------------------------------- sections: claims

\* The positions of the lines of the last call's output that equal text
At(text) == { p \in 1..OutLen : Line(p) = text }

\* The position of the one line that equals text
The(text) == CHOOSE p \in At(text) : TRUE

PendingStart == 3 + Len(db.players)

ClocksStart == PendingStart + 1 + 2 * Len(db.pending_anon_ids)

QueuedStart == ClocksStart + 1 + Len(db.clocks)

SuspendedBanner == template_suspended_task_count(Len(db.suspendedTasks))

InterruptedBanner == template_interrupted_task_count(Len(db.interruptedTasks))

ObjectsStart == The(ConnectionsHeader(db)) + 1 + Len(db.connections)

VerbsStart == OutLen - VerbTableLen + 1

\* The lines that start an entry of the object table
HeadLines ==
    { ObjectHeader(i) : i \in ObjectKeys(db) \cup 0..(db.total_objects - 1) }
        \cup { RecycledLine(i) : i \in 0..(db.total_objects - 1) }

\* C7: the output of writeDatabase is the version banner, the player list,
\* the pending list, the clock list, the queued, suspended and interrupted
\* tasks, the connections, the object table and the verb-program table, in
\* this order, each once and each complete before the next one starts.
C7_SectionOrder ==
    (calls # << >> /\ LastCall.op = "writeDatabase" /\ raised = "none") =>
        LET pS == The(SuspendedBanner)
            pI == The(InterruptedBanner)
            pC == The(ConnectionsHeader(db))
            pO == ObjectsStart
            pV == VerbsStart
            heads == HeadLines
            locators == AllLocators
        IN
        /\ At(template_version(17)) = {1}
        /\ Line(2) = ToString(Len(db.players))
        /\ \A j \in 1..Len(db.players) : Line(2 + j) = ToString(db.players[j])
        /\ At(template_pending_values_count(Len(db.pending_anon_ids))) = {PendingStart}
        /\ \A j \in 1..Len(db.pending_anon_ids) :
              /\ Line(PendingStart + 2 * j - 1) = ToString(ANON)
              /\ Line(PendingStart + 2 * j) = ToString(db.pending_anon_ids[j])
        /\ At(template_clock_count(Len(db.clocks))) = {ClocksStart}
        /\ \A j \in 1..Len(db.clocks) : Line(ClocksStart + j) = db.clocks[j]
        /\ At(template_task_count(Len(db.queuedTasks))) = {QueuedStart}
        /\ Cardinality(At(SuspendedBanner)) = 1
        /\ Cardinality(At(InterruptedBanner)) = 1
        /\ Cardinality(At(ConnectionsHeader(db))) = 1
        /\ QueuedStart < pS
        /\ pS < pI
        /\ pI < pC
        /\ \A j \in 1..Len(db.queuedTasks) :
              /\ At(template_task_header(db.queuedTasks[j])) # {}
              /\ At(template_task_header(db.queuedTasks[j]))
                    \subseteq (QueuedStart + 1)..(pS - 1)
        /\ \A j \in 1..Len(db.suspendedTasks) :
              Cardinality(At(template_vm_header(db.suspendedTasks[j].vm))
                              \cap (pS + 1)..(pI - 1))
                  = Len(db.suspendedTasks)
        /\ \A j \in 1..Len(db.interruptedTasks) :
              Cardinality(At(template_vm_header(db.interruptedTasks[j].vm))
                              \cap (pI + 1)..(pC - 1))
                  = Len(db.interruptedTasks)
        /\ \A j \in 1..Len(db.connections) : Line(pC + j) = db.connections[j]
        /\ Line(pO) = ToString(db.total_objects)
        /\ pO < pV - 1
        /\ Line(pV - 1) = "0"
        /\ Line(pV) = ToString(Len(CodePlaces))
        /\ \A p \in 1..OutLen :
              /\ Line(p) \in heads => (pO < p /\ p < pV - 1)
              /\ Line(p) \in locators => pV < p

\* writeDatabase on a database with players, a pending id, a clock, tasks of
\* the three kinds, connections, two objects, two anonymous objects and verbs.
C7_Witness ==
    /\ calls # << >>
    /\ LastCall.op = "writeDatabase"
    /\ db = Database(<<"Thing", "Root">>, TRUE, TRUE)
    /\ raised = "none"
    /\ Len(calls) = 1
    /\ Len(lines) = 342
    /\ lines[342] = "."

\* ---------------------------------------------------- object table: claims

\* The positions of the last call's output that start an entry
Heads == { p \in 1..OutLen : Line(p) \in HeadLines }

\* The rank of position p among the entry starts, from 1
Rank(H, p) == Cardinality({ q \in H : q <= p })

\* Every id of range(total_objects) is recycled or a key of db.objects
Dense == \A id \in 0..(db.total_objects - 1) :
             id \in db.recycled_objects \/ id \in ObjectKeys(db)

\* C8: for a database whose ids of range(total_objects) are all recycled or
\* keys of objects, writeObjects writes the count line total_objects and then
\* one entry for each id in ascending order, the line "# <id> recycled" for a
\* recycled id and the record of objects[id] otherwise; the entries of the
\* dense range are as many as the count line says.
C8_DenseEntries ==
    (calls # << >> /\ LastCall.op = "writeObjects" /\ Dense) =>
        LET H == Heads IN
        /\ raised = "none"
        /\ Line(1) = ToString(db.total_objects)
        /\ Cardinality(H) >= db.total_objects
        /\ db.total_objects > 0 => 2 \in H
        /\ \A p \in H :
              LET r == Rank(H, p) IN
              r <= db.total_objects =>
                  IF (r - 1) \in db.recycled_objects
                  THEN /\ Line(p) = RecycledLine(r - 1)
                       /\ r < db.total_objects => (p + 1) \in H
                  ELSE /\ Line(p) = ObjectHeader(r - 1)
                       /\ Line(p + 1) = ObjectAt(db, r - 1).name
                       /\ Line(p + 2) = ToString(ObjectAt(db, r - 1).flags)
                       /\ Line(p + 3) = ToString(ObjectAt(db, r - 1).owner)

\* writeObjects on a database of a recycled id, then an object.
C8_Witness ==
    /\ calls # << >>
    /\ LastCall.op = "writeObjects"
    /\ db = Database(<<"recycled", "Root">>, FALSE, FALSE)
    /\ raised = "none"
    /\ Len(calls) = 1
    /\ SubSeq(lines, 1, 6) = <<"2", "# 0 recycled", "#1", "Root", "144", "0">>

\* The ids of the anonymous objects of the database
AnonIds == { db.objects[n].id : n \in { m \in 1..Len(db.objects) :
                 db.objects[m].anon \/ db.objects[m].id >= db.total_objects } }

\* The k-th smallest anonymous id
AnonId(k) == CHOOSE x \in AnonIds : Cardinality({ y \in AnonIds : y <= x }) = k

\* C9: writeObjects writes the anonymous objects after every entry of the
\* dense range: when there are any, a count line with their number and then
\* their records in ascending id order; with or without them, the last line
\* of the object table is "0".
C9_AnonymousAfterDense ==
    (calls # << >> /\ LastCall.op = "writeObjects" /\ raised = "none") =>
        LET H == Heads IN
        /\ Line(OutLen) = "0"
        /\ Cardinality(H) = db.total_objects + Cardinality(AnonIds)
        /\ \A p \in H :
              LET r == Rank(H, p) IN
              r > db.total_objects =>
                  /\ Line(p) = ObjectHeader(AnonId(r - db.total_objects))
                  /\ r = db.total_objects + 1 =>
                         Line(p - 1) = ToString(Cardinality(AnonIds))
        /\ (AnonIds = {} /\ db.total_objects = 0) => OutLen = 2

\* writeObjects on a database of one object and of two anonymous objects that
\* db.objects holds in descending id order.
C9_Witness ==
    /\ calls # << >>
    /\ LastCall.op = "writeObjects"
    /\ db = Database(<<"System">>, TRUE, FALSE)
    /\ raised = "none"
    /\ Len(calls) = 1
    /\ \E p, q \in 2..Len(lines) :
          /\ p < q
          /\ lines[p - 1] = "2"
          /\ lines[p] = "#1001"
          /\ lines[q] = "#1002"
    /\ lines[Len(lines)] = "0"

\* Where the parent field starts in the record of obj: after the header, the
\* name, the flags, the owner, the location, last_move and the contents
ParentFieldAt(obj) == 11 + 2 * Len(obj.contents)

\* The object whose record the last call wrote
LastObject == ObjectAt(db, LastCall.arg.v)

\* C10 (as amended): the parent field of an object record is a single typed
\* object-reference when the object has one parent (the parent) or no parent
\* (#-1), and a typed list of object-references when it has more than one.
C10_ParentField ==
    (calls # << >> /\ LastCall.op = "writeObject" /\ raised = "none") =>
        LET p == ParentFieldAt(LastObject)
            parents == LastObject.parents
        IN  CASE Len(parents) = 0 ->
                    /\ Line(p) = ToString(OBJ)
                    /\ Line(p + 1) = ToString(-1)
                    /\ Line(p + 2) = ToString(LIST)
              [] Len(parents) = 1 ->
                    /\ Line(p) = ToString(OBJ)
                    /\ Line(p + 1) = ToString(parents[1])
                    /\ Line(p + 2) = ToString(LIST)
              [] OTHER ->
                    /\ Line(p) = ToString(LIST)
                    /\ Line(p + 1) = ToString(Len(parents))
                    /\ \A j \in 1..Len(parents) :
                          /\ Line(p + 2 * j) = ToString(OBJ)
                          /\ Line(p + 2 * j + 1) = ToString(parents[j])
                    /\ Line(p + 2 * Len(parents) + 2) = ToString(LIST)

\* writeObject of an object without parents: the parent field is the
\* object-reference #-1, and the children list follows it.
C10_Witness ==
    /\ calls # << >>
    /\ LastCall.op = "writeObject"
    /\ LastObject.parents = << >>
    /\ raised = "none"
    /\ Len(calls) = 1
    /\ SubSeq(lines, 9, 14) = <<"4", "0", "1", "-1", "4", "0">>

\* C10 (as stated): the parent field is a single typed object-reference when
\* the object has exactly one parent and a typed list when it has none or
\* more than one.
C10_ParentFieldAsStated ==
    (calls # << >> /\ LastCall.op = "writeObject" /\ raised = "none") =>
        LET p == ParentFieldAt(LastObject)
            parents == LastObject.parents
        IN  IF Len(parents) = 1
            THEN /\ Line(p) = ToString(OBJ)
                 /\ Line(p + 1) = ToString(parents[1])
            ELSE /\ Line(p) = ToString(LIST)
                 /\ Line(p + 1) = ToString(Len(parents))

\* --------------------------------------------------------- type tags: claims

\* The on-disk tag of each kind of the value model, as the format names them
ClaimedTag(k) ==
    CASE k = "int" -> 0
      [] k = "ObjNum" -> 1
      [] k = "str" -> 2
      [] k = "MooError" -> 3
      [] k = "list" -> 4
      [] k = "Clear" -> 5
      [] k = "NoneType" -> 6
      [] k = "MooCatch" -> 7
      [] k = "MooFinally" -> 8
      [] k = "float" -> 9
      [] k = "dict" -> 10
      [] k = "Anon" -> 12
      [] k = "WaifReference" -> 13
      [] k = "bool" -> 14

\* The kinds of the value model
ValueModelKinds ==
    {"int", "ObjNum", "str", "MooError", "list", "Clear", "NoneType", "MooCatch",
     "MooFinally", "float", "dict", "Anon", "WaifReference", "bool"}

\* C11: writeValue of a value of the value model first writes, on a line of
\* its own, the tag of the value's kind (0 int, 1 object-reference, 2 text,
\* 3 error, 4 sequence, 5 clear, 6 none, 7 catch, 8 finally, 9 float, 10 map,
\* 12 anon, 13 waif, 14 boolean), also when what follows the tag then fails;
\* the elements of a sequence and the keys of a map get their own tag the
\* same way.  So no int wrapper is tagged 0 and a plain int only 0.  No call
\* leaves a line unfinished, so the tag of the next call starts a line.
C11_TagFirst ==
    /\ cur = ""
    /\ (calls # << >> /\ LastCall.op = "writeValue"
                      /\ LastCall.arg.k \in ValueModelKinds) =>
        /\ Len(lines) >= LastCall.start
        /\ lines[LastCall.start] = ToString(ClaimedTag(LastCall.arg.k))
        /\ (LastCall.arg.k = "list" /\ LastCall.arg.v # << >>) =>
              lines[LastCall.start + 2] = ToString(ClaimedTag(LastCall.arg.v[1].k))
        /\ (LastCall.arg.k = "dict" /\ LastCall.arg.v # << >>) =>
              lines[LastCall.start + 2] = ToString(ClaimedTag(LastCall.arg.v[1][1].k))
        /\ (LastCall.arg.k \in IntClasses \ {"int"}) =>
              lines[LastCall.start] # ToString(0)

\* writeValue(ObjNum(5)) after writeValue(5): the lines 0, 5, 1, 5.
C11_Witness ==
    /\ Len(calls) = 2
    /\ calls[1].arg = PyInt(5)
    /\ calls[2].arg = ObjNum(5)
    /\ raised = "none"
    /\ lines = <<"0", "5", "1", "5">>

\* C12: writeValue of a value that is of no kind of the value model raises
\* the unsupported-value error (TypeError) and writes nothing.
C12_UnsupportedRaises ==
    (calls # << >> /\ LastCall.op = "writeValue"
                   /\ LastCall.arg.k \notin ValueModelKinds) =>
        /\ raised = "TypeError"
        /\ Len(lines) = LastCall.start - 1

\* ------------------------------------------------------- floats: claims

\* C13: writeValue of a float writes the tag 9 and then the float as
\* writeFloat formats it, with 19 significant digits in general formatting:
\* "nan" for a NaN, else the text of the nearest decimal number of at most 19
\* digits; decoding that number gives a float that the tolerance of the
\* comparison accepts as the float written.  For 0.1 the token is
\* 0.1000000000000000056, of 19 significant digits, and for 1.5 it is 1.5.
C13_Float19g ==
    (calls # << >> /\ LastCall.op = "writeValue" /\ LastCall.arg.k = "float") =>
        LET f == LastCall.arg.v
            dec == Decimal(f, SigDigits)
        IN  /\ cur = ""
            /\ raised = "none"
            /\ OutLen = 2
            /\ Line(1) = ToString(FLOAT)
            /\ IsNaN(f) => Line(2) = "nan"
            /\ ~IsNaN(f) =>
                /\ Len(dec.digits) <= 19
                /\ Line(2) = FormatG(dec, 19)
                /\ isclose(ReadFloat(dec), f)
            /\ LastCall.arg = Tenth =>
                /\ Line(2) = "0.1000000000000000056"
                /\ Len(dec.digits) = 19
            /\ LastCall.arg = PyFloat(3, 1) => Line(2) = "1.5"

C13_Witness ==
    /\ calls # << >>
    /\ LastCall.op = "writeValue"
    /\ LastCall.arg = Tenth
    /\ raised = "none"
    /\ Line(2) = "0.1000000000000000056"
    /\ isclose(ReadFloat(Decimal(Tenth.v, SigDigits)), Tenth.v)

\* --------------------------------------------------- comparisons: claims

\* The diffs of the session's comparison that lie at the path p, and at p or
\* below it
DiffsAt(p) == LET at(d) == d.path = p IN SelectSeq(cmp.diffs, at)

DiffsUnder(p) ==
    LET under(d) == Len(d.path) >= Len(p) /\ SubSeq(d.path, 1, Len(p)) = p
    IN  SelectSeq(cmp.diffs, under)

KindsAt(p) == { DiffsAt(p)[i].kind : i \in 1..Len(DiffsAt(p)) }

\* C14: compare_databases(D, D), when it returns, returns no difference
\* record, whatever D holds.
C14_SelfCompareEmpty ==
    (cmp.op = "compare_databases" /\ cmp.expected = cmp.actual /\ cmp.exc = "none") =>
        cmp.diffs = << >>

\* The places of object #1 of a database of the sessions that may hold an int
\* or an int wrapper, each with its path and its value: the value of the
\* property a, the first element of the list l, the value of the key k of
\* the map w, the location and the last move
WrapPlaces(d) ==
    LET o == ObjectAt(d, 1)
        obj == ObjectPath(1)
        prop(name) == child(child(obj, StrSeg("properties")), StrSeg(name))
    IN  << <<child(prop("a"), StrSeg("value")), ByName(o.properties, "a").value>>,
           <<child(child(prop("l"), StrSeg("value")), IntSeg(0)),
             ByName(o.properties, "l").value.v[1]>>,
           <<child(child(prop("w"), StrSeg("value")), StrSeg("k")),
             DictGet(ByName(o.properties, "w").value, PyStr("k"))>>,
           <<child(obj, StrSeg("location")), o.location>>,
           <<child(obj, StrSeg("last_move")), o.last_move>> >>

\* A plain int on one side and an int wrapper of the same number on the other
IntAgainstWrapper(e, a) ==
    /\ e.k \in IntClasses
    /\ a.k \in IntClasses
    /\ e.k # a.k
    /\ "int" \in {e.k, a.k}
    /\ e.v = a.v

\* C15: where the two databases hold a plain int against an int wrapper of
\* the same number, the diff has a type-mismatch record at that path and no
\* value-changed record at it: in a property value, a sequence element, a map
\* value, an object's location and its last move.
C15_WrapperIsTypeMismatch ==
    (/\ cmp.op = "compare_databases"
     /\ cmp.exc = "none"
     /\ cmp.max_diffs = PyNone
     /\ 1 \in ObjectKeys(cmp.expected)
     /\ 1 \in ObjectKeys(cmp.actual)) =>
        \A i \in 1..5 :
            LET e == WrapPlaces(cmp.expected)[i]
                a == WrapPlaces(cmp.actual)[i]
            IN  IntAgainstWrapper(e[2], a[2]) =>
                    /\ TYPE_MISMATCH \in KindsAt(e[1])
                    /\ VALUE_CHANGED \notin KindsAt(e[1])

\* C16: _compare_lists on two lists of lengths m and n.  There is one
\* length-mismatch record at the lists' path iff m # n; the records at and
\* below an index under min(m, n) are those of the comparison of the two
\* elements at that index; an index from n up to m has one record, MISSING,
\* an index from m up to n has one record, EXTRA; there is no other record,
\* and none at all when the lists are equal element by element.
C16_Lists ==
    (cmp.op = "compare_values" /\ cmp.expected.k = "list" /\ cmp.actual.k = "list") =>
        LET e == cmp.expected.v
            a == cmp.actual.v
            m == Len(e)
            n == Len(a)
            most == IF m > n THEN m ELSE n
            lengths == DiffsAt(root)
        IN  /\ Len(lengths) = (IF m # n THEN 1 ELSE 0)
            /\ \A i \in 1..Len(lengths) : lengths[i].kind = LENGTH_MISMATCH
            /\ \A i \in 0..(most - 1) :
                   LET p == <<IntSeg(i)>>
                   IN  /\ (i < m /\ i < n) =>
                              DiffsUnder(p) = compare_values(p, e[i + 1], a[i + 1])
                       /\ (i >= n) =>
                              /\ Len(DiffsUnder(p)) = 1
                              /\ KindsAt(p) = {MISSING}
                       /\ (i >= m) =>
                              /\ Len(DiffsUnder(p)) = 1
                              /\ KindsAt(p) = {EXTRA}
            /\ \A j \in 1..Len(cmp.diffs) :
                   \/ cmp.diffs[j].path = root
                   \/ \E i \in 0..(most - 1) : cmp.diffs[j].path[1] = IntSeg(i)
            /\ (e = a) => cmp.diffs = << >>

\* Lists of 4 and of 3 elements that differ below the shorter length
C16_Witness ==
    /\ cmp.op = "compare_values"
    /\ cmp.expected.k = "list"
    /\ cmp.actual.k = "list"
    /\ Len(cmp.expected.v) = 4
    /\ Len(cmp.actual.v) = 3
    /\ Len(DiffsAt(root)) = 1
    /\ KindsAt(<<IntSeg(1)>>) = {VALUE_CHANGED}
    /\ KindsAt(<<IntSeg(3)>>) = {MISSING}
    /\ Len(cmp.diffs) = 3

\* No two properties of the list have one name
DistinctNames(props) ==
    \A i, j \in 1..Len(props) : props[i].propertyName = props[j].propertyName => i = j

\* C17: compare_properties on two lists whose names are distinct within each
\* list.  Lists that are permutations of each other give no record; a name
\* of expected only has exactly one record, MISSING, a name of actual only
\* has exactly one record, EXTRA; a name of both has the records of the
\* comparison of the two values, one record for the owner iff the owners
\* differ and one for the permission bits iff they differ; there is no other
\* record.
C17_PropertiesByName ==
    (/\ cmp.op = "compare_properties"
     /\ DistinctNames(cmp.expected)
     /\ DistinctNames(cmp.actual)) =>
        LET P == cmp.expected
            Q == cmp.actual
            names(L) == { L[i].propertyName : i \in 1..Len(L) }
            named(L, name) == L[CHOOSE i \in 1..Len(L) : L[i].propertyName = name]
            at(name) == <<StrSeg("#1"), StrSeg("properties"), StrSeg(name)>>
        IN  /\ (/\ Len(P) = Len(Q)
                /\ \A i \in 1..Len(P) : \E j \in 1..Len(Q) : P[i] = Q[j]) =>
                   cmp.diffs = << >>
            /\ \A name \in names(P) \ names(Q) :
                   /\ Len(DiffsUnder(at(name))) = 1
                   /\ KindsAt(at(name)) = {MISSING}
            /\ \A name \in names(Q) \ names(P) :
                   /\ Len(DiffsUnder(at(name))) = 1
                   /\ KindsAt(at(name)) = {EXTRA}
            /\ \A name \in names(P) \cap names(Q) :
                   LET e == named(P, name)
                       a == named(Q, name)
                       value == Append(at(name), StrSeg("value"))
                       owner == Append(at(name), StrSeg("owner"))
                       perms == Append(at(name), StrSeg("perms"))
                   IN  /\ DiffsUnder(value) = compare_values(value, e.value, a.value)
                       /\ Len(DiffsUnder(owner)) = (IF e.owner # a.owner THEN 1 ELSE 0)
                       /\ Len(DiffsUnder(perms)) = (IF e.perms # a.perms THEN 1 ELSE 0)
                       /\ Len(DiffsUnder(at(name))) =
                              Len(DiffsUnder(value)) + Len(DiffsUnder(owner))
                                  + Len(DiffsUnder(perms))
                       /\ (e = a) => DiffsUnder(at(name)) = << >>
            /\ \A j \in 1..Len(cmp.diffs) :
                   \E name \in names(P) \cup names(Q) :
                       SubSeq(cmp.diffs[j].path, 1, 3) = at(name)

\* Three properties against the same names in another order, one of them with
\* another owner and other permission bits
C17_Witness ==
    /\ cmp.op = "compare_properties"
    /\ Len(cmp.expected) = 3
    /\ Len(cmp.actual) = 3
    /\ cmp.expected[1].propertyName = cmp.actual[3].propertyName
    /\ cmp.expected[2].propertyName = cmp.actual[1].propertyName
    /\ cmp.expected[3].propertyName = cmp.actual[2].propertyName
    /\ Len(cmp.diffs) = 2
    /\ KindsAt(<<StrSeg("#1"), StrSeg("properties"), StrSeg("a"), StrSeg("owner")>>)
           = {VALUE_CHANGED}

\* C18: compare_verbs pairs the verbs at one index, whatever their names:
\* for every index below both lengths there is one record for the name, the
\* owner, the permissions and the preposition iff the two verbs at that
\* index differ in it, and for the code no record when it is absent on both
\* sides, exactly one record, value-changed at the code path, when it is
\* absent on one side only (be it empty on the other), and the records of
\* the comparison of the two lists of lines when it is present on both.
C18_VerbsByIndex ==
    (cmp.op = "compare_verbs") =>
        \A i \in 1..Len(cmp.expected) :
            (i <= Len(cmp.actual)) =>
                LET e == cmp.expected[i]
                    a == cmp.actual[i]
                    at(field) == <<StrSeg("#1"), StrSeg("verbs"), IntSeg(i - 1), StrSeg(field)>>
                IN  /\ Len(DiffsUnder(at("name"))) = (IF e.name # a.name THEN 1 ELSE 0)
                    /\ Len(DiffsUnder(at("owner"))) = (IF e.owner # a.owner THEN 1 ELSE 0)
                    /\ Len(DiffsUnder(at("perms"))) = (IF e.perms # a.perms THEN 1 ELSE 0)
                    /\ Len(DiffsUnder(at("preps"))) = (IF e.preps # a.preps THEN 1 ELSE 0)
                    /\ (e.code = NoCode /\ a.code = NoCode) =>
                           DiffsUnder(at("code")) = << >>
                    /\ ((e.code = NoCode) # (a.code = NoCode)) =>
                           /\ Len(DiffsUnder(at("code"))) = 1
                           /\ KindsAt(at("code")) = {VALUE_CHANGED}
                    /\ (e.code # NoCode /\ a.code # NoCode) =>
                           DiffsUnder(at("code")) =
                               compare_values(at("code"), StrList(e.code.text),
                                              StrList(a.code.text))

\* Two verbs against the same two in the other order, one without program:
\* the names differ at both indices and the code has one record at each
C18_Witness ==
    /\ cmp.op = "compare_verbs"
    /\ Len(cmp.expected) = 2
    /\ Len(cmp.actual) = 2
    /\ cmp.expected[1] = cmp.actual[2]
    /\ cmp.expected[2] = cmp.actual[1]
    /\ cmp.expected[1].code = NoCode
    /\ cmp.expected[2].code # NoCode
    /\ \A i \in 0..1 :
           /\ KindsAt(<<StrSeg("#1"), StrSeg("verbs"), IntSeg(i), StrSeg("name")>>)
                  = {VALUE_CHANGED}
           /\ KindsAt(<<StrSeg("#1"), StrSeg("verbs"), IntSeg(i), StrSeg("code")>>)
                  = {VALUE_CHANGED}

\* C19: compare_databases with max_diffs = n, n >= 0, returns at most n
\* records, and they are the first n records (all of them when there are
\* fewer) of the same comparison made without a limit.
C19_AtMostN ==
    (cmp.op = "compare_databases" /\ cmp.exc = "none" /\ cmp.max_diffs # PyNone) =>
        LET n == cmp.max_diffs.v
            all == compare_databases(cmp.expected, cmp.actual, cmp.ignore, PyNone).diffs
        IN  /\ Len(cmp.diffs) <= n
            /\ cmp.diffs = SubSeq(all, 1, IF n < Len(all) THEN n ELSE Len(all))

\* C20: compare_databases raises nothing, whatever the two databases.
C20_NeverRaises == (cmp.op = "compare_databases") => cmp.exc = "none"

\* ------------------------------------------------- dump sessions: claims

\* dump(db, f) of session s has returned or raised
Dumped(s) ==
    dumps[s].pc >= 0 /\ (dumps[s].pc = Len(Sections) \/ dumps[s].exc # "none")

\* In the text of session s the first record of every waif met is a
\* definition: its header is the definition header of its write index
FirstIsDefinition(s) ==
    \A i \in DOMAIN dumps[s].written_waifs :
        LET at == EncountersOf(i, dumps[s].enc)
        IN  /\ at # << >>
            /\ at[1] <= Len(dumps[s].lines)
            /\ dumps[s].lines[at[1]] = DefinitionHeader(dumps[s].written_waifs[i])

\* C21: the waif interning table belongs to one Writer.  A step of one dump
\* leaves the table of the other as it was; a dump starts from an empty
\* table; and when the dumps of the same unchanged database have ended, run
\* one after the other or with their steps interleaved, they have written the
\* same text (the text one writeDatabase call on a new Writer writes), ended
\* the same way, and in each text the first record of every waif is a
\* definition.
C21_TablePerSession ==
    /\ [](\A s \in DumpSessions :
            /\ dumps[s].pc \in {-1, 0} => dumps[s].written_waifs = NoWriter.written_waifs
            /\ dumps[s].pc >= 0 => FirstIsDefinition(s)
            /\ Dumped(s) =>
                  /\ dumps[s].lines = writeDatabase(NoWriter).lines
                  /\ dumps[s].exc = writeDatabase(NoWriter).exc
            /\ \A t \in DumpSessions :
                  (Dumped(s) /\ Dumped(t)) =>
                      /\ dumps[s].lines = dumps[t].lines
                      /\ dumps[s].cur = dumps[t].cur
                      /\ dumps[s].exc = dumps[t].exc
                      /\ dumps[s].written_waifs = dumps[t].written_waifs)
    /\ [][\A s, t \in DumpSessions :
             (s # t /\ dumps'[s] # dumps[s]) =>
                 dumps'[t].written_waifs = dumps[t].written_waifs]_vars

\* Two dumps of the database with waif references in its tasks and in its
\* properties, the second started when the first had written the tasks: both
\* ended with the same text, in which the waifs 0 and 1 are defined
C21_Witness ==
    /\ db = Database(<<"Thing", "Root">>, TRUE, TRUE)
    /\ Dumped(1)
    /\ Dumped(2)
    /\ dumps[1].exc = "none"
    /\ dumps[1].lines = dumps[2].lines
    /\ DOMAIN dumps[2].written_waifs = {0, 1}
    /\ Cardinality({ p \in 1..Len(dumps[2].lines) : dumps[2].lines[p] = "c 0" }) = 1
    /\ Cardinality({ p \in 1..Len(dumps[2].lines) : dumps[2].lines[p] = "r 0" }) >= 1

\* ----------------------------------------------------- frame: claims

\* The value holds a waif reference, at some depth
RECURSIVE HasWaif(_)
HasWaif(v) ==
    CASE v.k = "WaifReference" -> TRUE
      [] v.k \in {"list", "tuple"} -> \E n \in 1..Len(v.v) : HasWaif(v.v[n])
      [] v.k = "dict" -> \E n \in 1..Len(v.v) : HasWaif(v.v[n][1]) \/ HasWaif(v.v[n][2])
      [] OTHER -> FALSE

\* The original indices writeWaif was entered for from the n-th encounter on
EncounteredFrom(e, n) == { e[j][1] : j \in n..Len(e) }

\* C22: a call of writeValue or of writeRawValue leaves the database as it
\* was and only appends to the output: the lines written before stay, and no
\* line is left unfinished.  When the value holds no waif reference at any
\* depth, the interning table is left as it was.  In every call the entries
\* the table held are kept, and the table gains exactly one entry for each
\* waif index that writeWaif met in the call and that the table did not hold.
C22_Frame ==
    [][(/\ Len(calls') = Len(calls) + 1
        /\ calls'[Len(calls')].op \in {"writeValue", "writeRawValue"}) =>
           LET v == calls'[Len(calls')].arg
               met == EncounteredFrom(enc', Len(enc) + 1)
           IN  /\ db' = db
               /\ cur = ""
               /\ cur' = ""
               /\ Len(lines') >= Len(lines)
               /\ SubSeq(lines', 1, Len(lines)) = lines
               /\ SubSeq(enc', 1, Len(enc)) = enc
               /\ ~HasWaif(v) => (written_waifs' = written_waifs /\ enc' = enc)
               /\ \A i \in DOMAIN written_waifs :
                      i \in DOMAIN written_waifs' /\ written_waifs'[i] = written_waifs[i]
               /\ DOMAIN written_waifs' = DOMAIN written_waifs \cup met
               /\ Cardinality(DOMAIN written_waifs')
                      = Cardinality(DOMAIN written_waifs)
                            + Cardinality(met \ DOMAIN written_waifs)
      ]_vars

\* writeRawValue of a list without waif reference after writeValue of a waif
\* reference: the table holds the waif, as before the second call
C22_Witness ==
    /\ Len(calls) = 2
    /\ calls[1].op = "writeValue"
    /\ calls[1].arg = WaifReference(0)
    /\ calls[2].op = "writeRawValue"
    /\ calls[2].arg = PyList(<<PyInt(7), PyList(<<PyStr("x"), ObjNum(1)>>)>>)
    /\ raised = "none"
    /\ DOMAIN written_waifs = {0}
    /\ SubSeq(lines, calls[2].start, Len(lines)) = <<"2", "0", "7", "4", "2", "2", "x", "1", "1">>

\* --------------------------------------------------- type codes: claims

\* C23: the type code in the header of a suspended task that has a value, and
\* the type code line of a variable of a runtime environment, are the tag
\* writeValue writes for the same value; so an error-code, an anon reference,
\* a control marker, the clear sentinel and a waif reference do not get the
\* code 0.
C23_TypeCodeIsTag ==
    /\ (calls # << >> /\ LastCall.op = "writeSuspendedTask"
                      /\ LastCall.arg.k # "NoneType") =>
           /\ OutLen >= 1
           /\ Line(1) = "1000 78 " \o ToString(TypeTag(LastCall.arg.k))
           /\ LastCall.arg.k \in {"MooError", "Anon", "MooCatch", "MooFinally",
                                  "Clear", "WaifReference"} =>
                  Line(1) # "1000 78 0"
    /\ (calls # << >> /\ LastCall.op = "writeRtEnv") =>
           /\ OutLen >= 6
           /\ Line(3) = ToString(TypeTag("ObjNum"))
           /\ Line(5) = "x"
           /\ Line(6) = ToString(TypeTag(LastCall.arg.k))
           /\ LastCall.arg.k \in {"MooError", "Anon", "MooCatch", "MooFinally",
                                  "Clear", "WaifReference"} =>
                  Line(6) # "0"

\* --------------------------------------------- failed waif writes: claims

\* C24: a writeValue of a reference whose index is no key of db.waifs, met
\* for the first time, raises and leaves the index out of the interning
\* table; so, whatever calls succeeded and failed, every index the table
\* holds has its definition header in the output, and every reference record
\* comes after the definition header of its write index.
C24_FailedWriteLeavesTable ==
    /\ (/\ calls # << >>
        /\ LastCall.op = "writeValue"
        /\ LastCall.arg.k = "WaifReference"
        /\ LastCall.arg.v \notin DOMAIN db.waifs
        /\ Len(EncountersOf(LastCall.arg.v, enc)) = 1) =>
           /\ raised = "KeyError"
           /\ LastCall.arg.v \notin DOMAIN written_waifs
    /\ \A i \in DOMAIN written_waifs :
           LinesEqual(DefinitionHeader(written_waifs[i])) # {}
    /\ \A w \in 0..Len(enc) :
           \A q \in LinesEqual(ReferenceHeader(w)) :
               \E p \in LinesEqual(DefinitionHeader(w)) : p < q

\* ------------------------------------------------- cyclic waifs: claims

\* The waif indices a value refers to, at any depth of lists, tuples and maps
RECURSIVE RefsIn(_)
RefsIn(v) ==
    CASE v.k = "WaifReference" -> {v.v}
      [] v.k \in {"list", "tuple"} -> UNION { RefsIn(v.v[n]) : n \in 1..Len(v.v) }
      [] v.k = "dict" ->
             UNION { RefsIn(v.v[n][1]) \cup RefsIn(v.v[n][2]) : n \in 1..Len(v.v) }
      [] OTHER -> {}

\* The waifs the properties of waif i refer to
RefsOf(i) ==
    IF i \in DOMAIN db.waifs THEN RefsIn(PyList(db.waifs[i].props)) ELSE {}

\* The waifs met when the waifs of S are written: S and what it leads to
RECURSIVE Reach(_)
Reach(S) ==
    LET T == S \cup UNION { RefsOf(i) : i \in S }
    IN  IF T = S THEN S ELSE Reach(T)

\* Waif i refers to itself, directly or through other waifs
OnCycle(i) == i \in Reach(RefsOf(i))

\* Every waif that writing waif i meets is a key of db.waifs whose props are
\* (slot, value) pairs
WellFormed(i) ==
    \A j \in Reach({i}) :
        /\ j \in DOMAIN db.waifs
        /\ \A n \in 1..Len(db.waifs[j].props) : db.waifs[j].props[n].k = "tuple"

\* C25: writeValue of a reference to a waif that is on a cycle of references
\* returns.  It leaves in the table every waif the cycle reaches, each with
\* exactly one definition header in the output; and when the call met the
\* waif for the first time, the occurrence inside its own properties is a
\* reference record between its definition header and the end of the call,
\* whose last two lines close the properties and the record.
C25_CyclesTerminate ==
    (/\ calls # << >>
     /\ LastCall.op = "writeValue"
     /\ LastCall.arg.k = "WaifReference"
     /\ OnCycle(LastCall.arg.v)
     /\ WellFormed(LastCall.arg.v)) =>
        LET i == LastCall.arg.v
            at == EncountersOf(i, enc)
        IN  /\ raised = "none"
            /\ cur = ""
            /\ Reach({i}) \subseteq DOMAIN written_waifs
            /\ \A j \in Reach({i}) :
                   Cardinality(LinesEqual(DefinitionHeader(written_waifs[j]))) = 1
            /\ at[1] > LastCall.start =>
                   /\ lines[at[1]] = DefinitionHeader(written_waifs[i])
                   /\ \E q \in (at[1] + 1)..(Len(lines) - 2) :
                          /\ lines[q] = ReferenceHeader(written_waifs[i])
                          /\ lines[q + 1] = "."
                   /\ lines[Len(lines) - 1] = "-1"
                   /\ lines[Len(lines)] = "."

\* writeValue of the reference to waif 10, which refers to waif 11 inside a
\* map, which refers to waif 10: one definition of each, and inside them the
\* reference record of waif 10
C25_Witness ==
    /\ Len(calls) = 1
    /\ calls[1].arg = WaifReference(10)
    /\ raised = "none"
    /\ written_waifs = (10 :> 0) @@ (11 :> 1)
    /\ lines = <<"13", "c 0", "100", "1", "1", "0", "10", "1", "2", "k",
                 "13", "c 1", "100", "2", "2", "0", "13", "r 0", ".",
                 "1", "0", "7", "-1", ".", "-1", ".">>

\* ------------------------------------------------ object records: claims

\* C26: writeObjects writes the record of each object of db.objects at most
\* once: none of them has two header lines "#<id>" in the object table, an
\* object flagged anon with an id below total_objects included.
C26_RecordAtMostOnce ==
    (calls # << >> /\ LastCall.op = "writeObjects" /\ raised = "none") =>
        \A id \in ObjectKeys(db) : Cardinality(At(ObjectHeader(id))) <= 1

\* Where, in the record of obj, the count line of its verbs is: after the
\* parent field and the children list
VerbCountAt(obj) ==
    ParentFieldAt(obj)
        + (IF Len(obj.parents) <= 1 THEN 2 ELSE 2 + 2 * Len(obj.parents))
        + 2 + 2 * Len(obj.children)

\* C27: in the text of writeDatabase every verb-program locator "#<o>:<i>"
\* names an object o of which the object table holds the full record, and an
\* index i below the number of verb entries written in that record; also
\* when an id is a key of db.objects and a member of recycled_objects.
C27_LocatorNamesWrittenVerb ==
    (calls # << >> /\ LastCall.op = "writeDatabase" /\ raised = "none") =>
        \A k \in 1..Len(CodePlaces) :
            \E o \in ObjectKeys(db) :
                \E i \in 0..(Len(ObjectAt(db, o).verbs) - 1) :
                    /\ Line(VerbsStart + EntryStart(k) - 1) = VerbLocator(o, i)
                    /\ \E q \in (ObjectsStart + 1)..(VerbsStart - 2) :
                           /\ Line(q) = ObjectHeader(o)
                           /\ Line(q + 1) = ObjectAt(db, o).name
                           /\ Line(q + VerbCountAt(ObjectAt(db, o)) - 1)
                                  = ToString(Len(ObjectAt(db, o).verbs))

\* --------------------------------------------- property counts: claims

\* The number of lines writeValue writes for a value without waif reference
RECURSIVE ValueLines(_)
ValueLines(v) ==
    LET Sum(f, n) == LET RECURSIVE S(_)
                         S(j) == IF j = 0 THEN 0 ELSE f[j] + S(j - 1)
                     IN  S(n)
    IN  CASE v.k \in {"list", "tuple"} ->
                 2 + Sum([n \in 1..Len(v.v) |-> ValueLines(v.v[n])], Len(v.v))
          [] v.k = "dict" ->
                 2 + Sum([n \in 1..Len(v.v) |->
                             ValueLines(v.v[n][1]) + ValueLines(v.v[n][2])], Len(v.v))
          [] v.k \in {"Clear", "NoneType"} -> 1
          [] OTHER -> 2

\* The number of lines of the (value, owner, perms) triples of a property list
RECURSIVE TripleLines(_)
TripleLines(props) ==
    IF props = << >> THEN 0
    ELSE ValueLines(Head(props).value) + 2 + TripleLines(Tail(props))

\* C28: in what write_properties writes, the first line, the defined count,
\* is the number of property name lines that follow it, and those lines are
\* the names of the first properties; the line after them, the total count,
\* is the number of (value, owner, perms) triples that follow to the end;
\* whatever propdefs_count is, greater than the number of properties included.
C28_CountsMatchLines ==
    (calls # << >> /\ LastCall.op = "write_properties" /\ raised = "none") =>
        LET props == LastCall.arg.properties
            names == OutLen - 2 - TripleLines(props)
        IN  /\ names >= 0
            /\ Line(1) = ToString(LastCall.arg.propdefs_count)
            /\ Line(1) = ToString(names)
            /\ names <= Len(props)
            /\ \A j \in 1..names : Line(1 + j) = props[j].propertyName
            /\ Line(names + 2) = ToString(Len(props))

\* ------------------------------------------ property lists: more claims

\* The properties of a list that have one name, in the order of the list
Named(props, name) == SelectSeq(props, LAMBDA p : p.propertyName = name)

\* Two property lists differ in length, or in the value, the owner or the
\* permission bits of an entry of a name they both have
ListsDiffer(P, Q) ==
    \/ Len(P) # Len(Q)
    \/ \E name \in PropertyNames(P) \cap PropertyNames(Q) :
           \/ Len(Named(P, name)) # Len(Named(Q, name))
           \/ \E i \in 1..Len(Named(P, name)) :
                  \/ Named(P, name)[i].value # Named(Q, name)[i].value
                  \/ Named(P, name)[i].owner # Named(Q, name)[i].owner
                  \/ Named(P, name)[i].perms # Named(Q, name)[i].perms

\* C30: compare_properties on two lists that differ in length or in the
\* value, the owner or the permission bits of an entry returns at least one
\* difference record, lists with a name twice included.
C30_DifferenceIsReported ==
    (cmp.op = "compare_properties" /\ ListsDiffer(cmp.expected, cmp.actual)) =>
        cmp.diffs # << >>

\* ------------------------------------------ compared parts: claims

\* C29: when compare_databases, called with no ignore_fields and no
\* max_diffs, returns no difference record, the two databases agree on the
\* parts writeDatabase writes from a field of its own: the version, the
\* players, the recycled ids, the pending anonymous ids and the waifs, and
\* also the clocks, the connections and the queued, suspended and
\* interrupted tasks.
C29_NoDiffsMeansSameParts ==
    (/\ cmp.op = "compare_databases"
     /\ cmp.ignore = {}
     /\ cmp.max_diffs = PyNone
     /\ cmp.exc = "none"
     /\ cmp.diffs = << >>) =>
        /\ cmp.expected.version = cmp.actual.version
        /\ cmp.expected.players = cmp.actual.players
        /\ cmp.expected.recycled_objects = cmp.actual.recycled_objects
        /\ cmp.expected.pending_anon_ids = cmp.actual.pending_anon_ids
        /\ cmp.expected.waifs = cmp.actual.waifs
        /\ cmp.expected.clocks = cmp.actual.clocks
        /\ cmp.expected.connections = cmp.actual.connections
        /\ cmp.expected.queuedTasks = cmp.actual.queuedTasks
        /\ cmp.expected.suspendedTasks = cmp.actual.suspendedTasks
        /\ cmp.expected.interruptedTasks = cmp.actual.interruptedTasks

====
